---- MODULE Spec2Model ----
(***************************************************************************)
(* Model of PeerConnection (src/src/peer/mod.rs): the signalling-side      *)
(* wrapper around a native RTCPeerConnection.                              *)
(*                                                                         *)
(* The session runs on one cooperative executor: an async method runs      *)
(* atomically from one `.await` that suspends to the next.  Every action   *)
(* below is one such segment of a method; the native connection and the    *)
(* track registry are collaborators whose answers (success or failure)     *)
(* are chosen nondeterministically when the awaiting segment resumes.      *)
(***************************************************************************)
EXTENDS Integers, Sequences, FiniteSets, TLC

\* Number of add_ice_candidate() calls explored.
MaxCandidates == 2

\* Number of set_remote_description() calls explored (the first negotiation
\* and renegotiations; calls may overlap).
MaxSrdCalls == 2

\* Option<T>: None is the empty sequence, Some(v) is <<v>>.
None == <<>>

Some(v) == <<v>>

\* platform::IceCandidate { candidate, sdp_m_line_index, sdp_mid }: the
\* triples add_ice_candidate() is called with.
IceCandidates ==
    { [candidate |-> "candidate:1", sdp_m_line_index |-> Some(0), sdp_mid |-> Some("0")],
      [candidate |-> "candidate:2", sdp_m_line_index |-> None, sdp_mid |-> None] }

\* platform::SdpType: set_remote_offer() and set_remote_answer() both call
\* set_remote_description() with a tagged description.
SdpTypes == {"Offer", "Answer"}

\* A SimpleTracksRequest holds at most one audio and two video tracks.
MaxAudio == 1
MaxVideo == 2

\* Bound on the number of update_local_stream() invocations.
MaxUlsCalls == 2

\* Bound on the number of native callback firings.
MaxFirings == 2

\* Bound on the number of TrackEvents sent by the tracks.
MaxIntentions == 2

\* The PeerId of the session (state.id()), fixed at construction.
id == "PeerId(1)"

\* Number of entries of a statistics snapshot explored.
MaxSnapshotLen == 2

\* Number of send_peer_stats() invocations explored, those made by
\* scrape_and_send_peer_stats() included.
MaxStatsCalls == 2

\* platform::RtcStat { id, stats }: the entries explored are a metric with two
\* different contents and a second metric.
RtcStat ==
    { [id |-> "stat-a", stats |-> "x"],
      [id |-> "stat-a", stats |-> "y"],
      [id |-> "stat-b", stats |-> "x"] }

\* platform::RtcStats(Vec<RtcStat>): a snapshot is a sequence of entries;
\* nothing in the type makes its ids distinct.

Snapshots == UNION {[1..n -> RtcStat] : n \in 0..MaxSnapshotLen}

\* The five callbacks bind_event_listeners() registers on the native
\* connection.
Callbacks ==
    { "on_ice_candidate", "on_ice_candidate_error",
      "on_ice_connection_state_change", "on_connection_state_change",
      "on_track" }

VARIABLES
    has_remote_description,  \* PeerConnection.has_remote_description: Cell<bool>
    ice_candidates_buffer,   \* PeerConnection.ice_candidates_buffer: RefCell<Vec<IceCandidate>>
    srd_calls,               \* the set_remote_description() invocations, in call order
    aic_calls,               \* the add_ice_candidate() invocations, in call order
    native_candidates,       \* what the native add_ice_candidate received, in order
    native_descriptions,     \* number of remote descriptions the native connection applied
    sync_receivers_calls,    \* number of MediaConnections::sync_receivers() invocations
    sent_stats_cache,        \* PeerConnection.sent_stats_cache: RefCell<HashMap<StatId, u64>>
    stats_calls,             \* number of send_peer_stats() invocations
    last_stats,              \* the latest send_peer_stats() invocation: input and result
    get_stats_pending,       \* scrape_and_send_peer_stats() calls awaiting the native get_stats
    get_stats_failures,      \* number of scrape_and_send_peer_stats() calls whose get_stats failed
    peer_events,             \* every unbounded_send on the PeerEvent channel, in order
    receiver_open,           \* the channel's receiver has not been closed or dropped
    uls_calls,               \* the update_local_stream() invocations, in call order
    get_tracks_calls,        \* number of MediaManager::get_tracks() invocations
    insert_local_tracks_calls, \* number of MediaConnections::insert_local_tracks() invocations
    session_alive,           \* the PeerConnection has not been dropped
    callbacks,               \* the callbacks registered on the native connection
    remote_track_tasks,      \* spawned add_remote_track() tasks not yet completed
    fired,                   \* the native connection's callback firings, in order
    track_events,            \* TrackEvents queued in the track events channel
    track_event_senders,     \* the holders of a sender of the track events channel
    bridge_task,             \* the task forwarding TrackEvents: its position
    handled,                 \* the TrackEvents the task has received, in order
    sent_after_drop,         \* per TrackEvent sent, in order: was the session dropped already
    construction,            \* PeerConnection::new(): its position
    native_new_calls         \* number of platform::RtcPeerConnection::new() invocations

\* The ICE signalling state.
iceVars == <<has_remote_description, ice_candidates_buffer, srd_calls, aic_calls,
             native_candidates, native_descriptions, sync_receivers_calls>>

\* The statistics state.
statsVars == <<sent_stats_cache, stats_calls, last_stats, get_stats_pending,
               get_stats_failures>>

\* The outbound PeerEvent channel.
eventVars == <<peer_events, receiver_open>>

\* The update_local_stream() state.
streamVars == <<uls_calls, get_tracks_calls, insert_local_tracks_calls>>

\* The session's lifetime and its native callbacks.
sessionVars == <<session_alive, callbacks, remote_track_tasks, fired>>

\* The track events channel and the task forwarding from it.
bridgeVars == <<track_events, track_event_senders, bridge_task, handled,
                sent_after_drop>>

\* The construction of the session.
newVars == <<construction, native_new_calls>>

\* What add_ice_candidate() and set_remote_description() never touch.
nonIceVars == <<statsVars, eventVars, streamVars, sessionVars, bridgeVars, newVars>>

vars == <<iceVars, statsVars, eventVars, streamVars, sessionVars, bridgeVars, newVars>>

----------------------------------------------------------------------------
(* Helpers *)

\* s is an initial segment of t.
IsPrefix(s, t) == Len(s) <= Len(t) /\ SubSeq(t, 1, Len(s)) = s

\* Number of positions of s holding x.
Count(s, x) == Cardinality({k \in 1..Len(s) : s[k] = x})

\* The triple of an entry of native_candidates.
Triple(e) == [candidate |-> e.candidate, sdp_m_line_index |-> e.sdp_m_line_index,
              sdp_mid |-> e.sdp_mid]

----------------------------------------------------------------------------
(* PeerConnection::new *)

Init ==
    /\ has_remote_description = FALSE
    /\ ice_candidates_buffer = <<>>
    /\ srd_calls = <<>>
    /\ aic_calls = <<>>
    /\ native_candidates = <<>>
    /\ native_descriptions = 0
    /\ sync_receivers_calls = 0
    /\ sent_stats_cache = [x \in {} |-> None]
    /\ stats_calls = 0
    /\ last_stats = [stats |-> <<>>, filtered |-> <<>>, repeated |-> FALSE]
    /\ get_stats_pending = 0
    /\ get_stats_failures = 0
    /\ peer_events = <<>>
    /\ receiver_open = TRUE
    /\ uls_calls = <<>>
    /\ get_tracks_calls = 0
    /\ insert_local_tracks_calls = 0
    /\ session_alive = TRUE
    /\ callbacks = Callbacks
    /\ remote_track_tasks = <<>>
    /\ fired = <<>>
    /\ track_events = <<>>
    /\ track_event_senders = {"session"}
    /\ bridge_task = "running"
    /\ handled = <<>>
    /\ sent_after_drop = <<>>
    /\ construction = "done"
    /\ native_new_calls = 1

----------------------------------------------------------------------------
(* PeerConnection::add_ice_candidate *)

\* One native add_ice_candidate(candidate, sdp_m_line_index, sdp_mid) call as
\* the native connection receives it; `by` tells which method made it.
NativeCall(c, by) ==
    [candidate |-> c.candidate, sdp_m_line_index |-> c.sdp_m_line_index,
     sdp_mid |-> c.sdp_mid, by |-> by]

\* Some set_remote_description() call has returned AddIceCandidateFailed.
FlushFailed ==
    \E i \in 1..Len(srd_calls) : srd_calls[i].result = "AddIceCandidateFailed"

\* Mutant of AddIceCandidate: the flag is not consulted and the candidate is
\* always handed to the native connection.
AddIceCandidate_IgnoresFlag(c) ==
    /\ Len(aic_calls) < MaxCandidates
    /\ native_candidates' =
          Append(native_candidates, NativeCall(c, "add_ice_candidate"))
    /\ aic_calls' = Append(aic_calls,
          [candidate |-> c, route |-> "native", result |-> "pending",
           after_failed_flush |-> FlushFailed])
    /\ UNCHANGED <<has_remote_description, ice_candidates_buffer, srd_calls,
                   native_descriptions, sync_receivers_calls>>
    /\ UNCHANGED nonIceVars

\* Mutant of AddIceCandidate: the flag is not consulted and the candidate is
\* always pushed to the buffer.
AddIceCandidate_AlwaysBuffers(c) ==
    /\ Len(aic_calls) < MaxCandidates
    /\ ice_candidates_buffer' = Append(ice_candidates_buffer, c)
    /\ aic_calls' = Append(aic_calls,
          [candidate |-> c, route |-> "buffer", result |-> "Ok",
           after_failed_flush |-> FlushFailed])
    /\ UNCHANGED <<has_remote_description, native_candidates, srd_calls,
                   native_descriptions, sync_receivers_calls>>
    /\ UNCHANGED nonIceVars

\* Mutant of AddIceCandidate: a candidate equal to one already buffered is
\* not pushed again.
AddIceCandidate_SkipsDuplicate(c) ==
    /\ Len(aic_calls) < MaxCandidates
    /\ IF has_remote_description
         THEN /\ native_candidates' =
                    Append(native_candidates, NativeCall(c, "add_ice_candidate"))
              /\ aic_calls' = Append(aic_calls,
                    [candidate |-> c, route |-> "native", result |-> "pending",
                     after_failed_flush |-> FlushFailed])
              /\ UNCHANGED ice_candidates_buffer
         ELSE /\ ice_candidates_buffer' =
                    IF \E k \in 1..Len(ice_candidates_buffer) :
                          ice_candidates_buffer[k] = c
                      THEN ice_candidates_buffer
                      ELSE Append(ice_candidates_buffer, c)
              /\ aic_calls' = Append(aic_calls,
                    [candidate |-> c, route |-> "buffer", result |-> "Ok",
                     after_failed_flush |-> FlushFailed])
              /\ UNCHANGED native_candidates
    /\ UNCHANGED <<has_remote_description, srd_calls, native_descriptions,
                   sync_receivers_calls>>
    /\ UNCHANGED nonIceVars

\* add_ice_candidate(candidate, sdp_m_line_index, sdp_mid), up to its first
\* suspension: with a remote description the candidate is handed to the
\* native connection and the call awaits the answer; without one it is
\* pushed to the buffer and the call returns Ok(()).  The call record notes
\* how the candidate was routed and (history only) whether a flush had
\* already failed when the call was made.
AddIceCandidate(c) ==
    /\ Len(aic_calls) < MaxCandidates
    /\ IF has_remote_description
         THEN /\ native_candidates' =
                    Append(native_candidates, NativeCall(c, "add_ice_candidate"))
              /\ aic_calls' = Append(aic_calls,
                    [candidate |-> c, route |-> "native", result |-> "pending",
                     after_failed_flush |-> FlushFailed])
              /\ UNCHANGED ice_candidates_buffer
         ELSE /\ ice_candidates_buffer' = Append(ice_candidates_buffer, c)
              /\ aic_calls' = Append(aic_calls,
                    [candidate |-> c, route |-> "buffer", result |-> "Ok",
                     after_failed_flush |-> FlushFailed])
              /\ UNCHANGED native_candidates
    /\ UNCHANGED <<has_remote_description, srd_calls, native_descriptions,
                   sync_receivers_calls>>
    /\ UNCHANGED nonIceVars

\* The native add_ice_candidate of call j answers and the call returns:
\* Ok(()) or, through `?`, AddIceCandidateFailed.
AddIceCandidateReturns(j, ok) ==
    /\ j \in 1..Len(aic_calls)
    /\ aic_calls[j].result = "pending"
    /\ aic_calls' = [aic_calls EXCEPT ![j].result =
                        IF ok THEN "Ok" ELSE "AddIceCandidateFailed"]
    /\ UNCHANGED <<has_remote_description, ice_candidates_buffer, srd_calls,
                   native_candidates, native_descriptions, sync_receivers_calls>>
    /\ UNCHANGED nonIceVars

----------------------------------------------------------------------------
(* PeerConnection::set_remote_description *)

\* set_remote_description(desc) is called (through set_remote_offer() or
\* set_remote_answer()): the description is handed to the native connection
\* and the call awaits the answer.  `desc` is moved into the native call: the
\* record holds it as Some(desc) until the native connection answers.  The
\* record also notes (history only) whether the flag was already set when the
\* call was made, i.e. whether it is a renegotiation.
SetRemoteDescription(desc) ==
    /\ Len(srd_calls) < MaxSrdCalls
    /\ srd_calls' = Append(srd_calls,
          [desc |-> Some(desc), pc |-> "set_remote_description",
           result |-> "pending", flush |-> <<>>,
           renegotiation |-> has_remote_description])
    /\ UNCHANGED <<has_remote_description, ice_candidates_buffer, aic_calls,
                   native_candidates, native_descriptions, sync_receivers_calls>>
    /\ UNCHANGED nonIceVars

\* Mutant of SetRemoteDescriptionRejected: the flag is written from the
\* outcome, so a rejected renegotiation clears it.
SetRemoteDescriptionRejected_ClearsFlag(i) ==
    /\ i \in 1..Len(srd_calls)
    /\ srd_calls[i].pc = "set_remote_description"
    /\ has_remote_description' = FALSE
    /\ srd_calls' = [srd_calls EXCEPT ![i].pc = "returned",
                        ![i].desc = None,
                        ![i].result = "SetRemoteDescriptionFailed"]
    /\ UNCHANGED <<ice_candidates_buffer, aic_calls, native_candidates,
                   native_descriptions, sync_receivers_calls>>
    /\ UNCHANGED nonIceVars

\* Mutant of SetRemoteDescriptionRejected: the flag is set before the native
\* answer is looked at.
SetRemoteDescriptionRejected_SetsFlag(i) ==
    /\ i \in 1..Len(srd_calls)
    /\ srd_calls[i].pc = "set_remote_description"
    /\ has_remote_description' = TRUE
    /\ srd_calls' = [srd_calls EXCEPT ![i].pc = "returned",
                        ![i].desc = None,
                        ![i].result = "SetRemoteDescriptionFailed"]
    /\ UNCHANGED <<ice_candidates_buffer, aic_calls, native_candidates,
                   native_descriptions, sync_receivers_calls>>
    /\ UNCHANGED nonIceVars

\* The native connection rejects the description of call i: `?` returns
\* SetRemoteDescriptionFailed at once.
SetRemoteDescriptionRejected(i) ==
    /\ i \in 1..Len(srd_calls)
    /\ srd_calls[i].pc = "set_remote_description"
    /\ srd_calls' = [srd_calls EXCEPT ![i].pc = "returned",
                        ![i].desc = None,
                        ![i].result = "SetRemoteDescriptionFailed"]
    /\ UNCHANGED <<has_remote_description, ice_candidates_buffer, aic_calls,
                   native_candidates, native_descriptions, sync_receivers_calls>>
    /\ UNCHANGED nonIceVars

\* Mutant of SetRemoteDescriptionApplied: the buffer is flushed as soon as the
\* flag is set, before sync_receivers() is awaited.
SetRemoteDescriptionApplied_FlushesFirst(i) ==
    /\ i \in 1..Len(srd_calls)
    /\ srd_calls[i].pc = "set_remote_description"
    /\ native_descriptions' = native_descriptions + 1
    /\ has_remote_description' = TRUE
    /\ sync_receivers_calls' = sync_receivers_calls + 1
    /\ ice_candidates_buffer' = <<>>
    /\ native_candidates' = native_candidates \o
          [k \in 1..Len(ice_candidates_buffer) |->
              NativeCall(ice_candidates_buffer[k], "flush")]
    /\ srd_calls' = [srd_calls EXCEPT ![i].pc = "sync_receivers",
                        ![i].desc = None]
    /\ UNCHANGED aic_calls
    /\ UNCHANGED nonIceVars

\* The native connection applied the description of call i: the flag is set
\* and sync_receivers() is invoked and awaited.
SetRemoteDescriptionApplied(i) ==
    /\ i \in 1..Len(srd_calls)
    /\ srd_calls[i].pc = "set_remote_description"
    /\ native_descriptions' = native_descriptions + 1
    /\ has_remote_description' = TRUE
    /\ sync_receivers_calls' = sync_receivers_calls + 1
    /\ srd_calls' = [srd_calls EXCEPT ![i].pc = "sync_receivers",
                        ![i].desc = None]
    /\ UNCHANGED <<ice_candidates_buffer, aic_calls, native_candidates>>
    /\ UNCHANGED nonIceVars

\* drain(..).map(|candidate| async move { peer.add_ice_candidate(..).await }):
\* one future per buffered candidate, in buffer order, each owning its
\* candidate.
DrainedFutures(buffer) ==
    [k \in 1..Len(buffer) |-> [candidate |-> buffer[k], state |-> "pending"]]

\* Mutant of FlushSubmissions: the buffer is emptied from its end (pop()), so
\* the candidates are submitted in reverse.
FlushSubmissions_Reversed(futures) ==
    [k \in 1..Len(futures) |->
        NativeCall(futures[Len(futures) + 1 - k].candidate, "flush")]

\* Mutant of FlushSubmissions: the candidates are submitted one after the
\* other and the first rejection ends the flush, so that only the first
\* candidate is sure to be submitted.
FlushSubmissions_FirstOnly(futures) ==
    [k \in 1..(IF futures = <<>> THEN 0 ELSE 1) |->
        NativeCall(futures[k].candidate, "flush")]

\* The native calls made when try_join_all first polls the futures: it polls
\* them in order, and each one's first poll hands its candidate to the native
\* connection and suspends.
FlushSubmissions(futures) ==
    [k \in 1..Len(futures) |-> NativeCall(futures[k].candidate, "flush")]

\* Mutant of FlushIceCandidatesBuffer: the buffer is iterated, not drained.
FlushIceCandidatesBuffer_KeepsBuffer(i) ==
    /\ i \in 1..Len(srd_calls)
    /\ srd_calls[i].pc = "sync_receivers"
    /\ LET futures == DrainedFutures(ice_candidates_buffer)
       IN /\ native_candidates' = native_candidates \o FlushSubmissions(futures)
          /\ srd_calls' = [srd_calls EXCEPT
                ![i].flush = futures,
                ![i].pc = IF futures = <<>> THEN "returned" ELSE "try_join_all",
                ![i].result = IF futures = <<>> THEN "Ok" ELSE "pending"]
    /\ UNCHANGED <<has_remote_description, ice_candidates_buffer, aic_calls,
                   native_descriptions, sync_receivers_calls>>
    /\ UNCHANGED nonIceVars

\* sync_receivers() of call i completed: the buffer is drained into futures,
\* which try_join_all polls at once.  With nothing buffered try_join_all is
\* ready immediately and the call returns Ok(()).
FlushIceCandidatesBuffer(i) ==
    /\ i \in 1..Len(srd_calls)
    /\ srd_calls[i].pc = "sync_receivers"
    /\ LET futures == DrainedFutures(ice_candidates_buffer)
       IN /\ ice_candidates_buffer' = <<>>
          /\ native_candidates' = native_candidates \o FlushSubmissions(futures)
          /\ srd_calls' = [srd_calls EXCEPT
                ![i].flush = futures,
                ![i].pc = IF futures = <<>> THEN "returned" ELSE "try_join_all",
                ![i].result = IF futures = <<>> THEN "Ok" ELSE "pending"]
    /\ UNCHANGED <<has_remote_description, aic_calls, native_descriptions,
                   sync_receivers_calls>>
    /\ UNCHANGED nonIceVars

\* The native connection answers the submission of the k-th flushed candidate
\* of call i.
NativeAddIceCandidateAnswers(i, k, ok) ==
    /\ i \in 1..Len(srd_calls)
    /\ srd_calls[i].pc = "try_join_all"
    /\ k \in 1..Len(srd_calls[i].flush)
    /\ srd_calls[i].flush[k].state = "pending"
    /\ srd_calls' = [srd_calls EXCEPT ![i].flush[k].state =
                        IF ok THEN "ok" ELSE "err"]
    /\ UNCHANGED <<has_remote_description, ice_candidates_buffer, aic_calls,
                   native_candidates, native_descriptions, sync_receivers_calls>>
    /\ UNCHANGED nonIceVars

\* Mutant of TryJoinAllReturns: a failed flush puts the candidates of its
\* futures back into the buffer.
TryJoinAllReturns_Rebuffers(i) ==
    /\ i \in 1..Len(srd_calls)
    /\ srd_calls[i].pc = "try_join_all"
    /\ LET states == {srd_calls[i].flush[k].state : k \in 1..Len(srd_calls[i].flush)}
           failed == "err" \in states
       IN /\ failed \/ states = {"ok"}
          /\ ice_candidates_buffer' =
                IF failed
                  THEN ice_candidates_buffer \o
                       [k \in 1..Len(srd_calls[i].flush) |->
                           srd_calls[i].flush[k].candidate]
                  ELSE ice_candidates_buffer
          /\ srd_calls' = [srd_calls EXCEPT ![i].pc = "returned",
                ![i].flush = <<>>,
                ![i].result = IF failed THEN "AddIceCandidateFailed" ELSE "Ok"]
    /\ UNCHANGED <<has_remote_description, aic_calls, native_candidates,
                   native_descriptions, sync_receivers_calls>>
    /\ UNCHANGED nonIceVars

\* try_join_all is polled again: an error among the answers makes the call
\* return AddIceCandidateFailed; with every answer Ok the call returns Ok(()).
\* Returning drops the futures, also those still pending.
TryJoinAllReturns(i) ==
    /\ i \in 1..Len(srd_calls)
    /\ srd_calls[i].pc = "try_join_all"
    /\ LET states == {srd_calls[i].flush[k].state : k \in 1..Len(srd_calls[i].flush)}
       IN /\ "err" \in states \/ states = {"ok"}
          /\ srd_calls' = [srd_calls EXCEPT ![i].pc = "returned",
                ![i].flush = <<>>,
                ![i].result = IF "err" \in states THEN "AddIceCandidateFailed"
                              ELSE "Ok"]
    /\ UNCHANGED <<has_remote_description, ice_candidates_buffer, aic_calls,
                   native_candidates, native_descriptions, sync_receivers_calls>>
    /\ UNCHANGED nonIceVars

----------------------------------------------------------------------------

Next ==
    \/ \E c \in IceCandidates : AddIceCandidate(c)
    \/ \E j \in 1..MaxCandidates, ok \in BOOLEAN : AddIceCandidateReturns(j, ok)
    \/ \E desc \in SdpTypes : SetRemoteDescription(desc)
    \/ \E i \in 1..MaxSrdCalls : SetRemoteDescriptionRejected(i)
    \/ \E i \in 1..MaxSrdCalls : SetRemoteDescriptionApplied(i)
    \/ \E i \in 1..MaxSrdCalls : FlushIceCandidatesBuffer(i)
    \/ \E i \in 1..MaxSrdCalls, k \in 1..MaxCandidates, ok \in BOOLEAN :
          NativeAddIceCandidateAnswers(i, k, ok)
    \/ \E i \in 1..MaxSrdCalls : TryJoinAllReturns(i)

Spec == Init /\ [][Next]_vars

----------------------------------------------------------------------------
(* The outbound PeerEvent channel *)

\* peer_events_sender.unbounded_send(event): the event is queued if the
\* receiver is still there and dropped otherwise; the callers ignore the
\* result.  Every send is recorded with whether the channel accepted it.
UnboundedSend(events, event) ==
    Append(events, [event |-> event, accepted |-> receiver_open])

\* The events the receiver gets, in order.
Delivered ==
    LET Accepted(e) == e.accepted
        sends == SelectSeq(peer_events, Accepted)
    IN [k \in 1..Len(sends) |-> sends[k].event]

\* The signalling layer closes or drops the receiving end.
CloseReceiver ==
    /\ receiver_open
    /\ receiver_open' = FALSE
    /\ UNCHANGED <<peer_events, iceVars, statsVars, streamVars, sessionVars, bridgeVars,
                   newVars>>

----------------------------------------------------------------------------
(* PeerConnection::send_peer_stats, scrape_and_send_peer_stats *)

\* DefaultHasher over RtcStat.stats: a 64-bit digest of the content, taken
\* here as a value that is not the content and differs for different
\* contents (no collision among the contents explored).
StatHash(v) == <<"DefaultHasher", v>>

\* PeerEvent::StatsUpdate { peer_id, stats }.
StatsUpdate(peer_id, stats) ==
    [type |-> "StatsUpdate", peer_id |-> peer_id, payload |-> stats]

\* Mutant of CacheInsert: a hash already recorded is not overwritten.
CacheInsert_KeepsOld(cache, stat_id, h) ==
    [x \in DOMAIN cache \cup {stat_id} |->
        IF x \in DOMAIN cache THEN cache[x] ELSE h]

\* Mutant of CacheInsert: the cache holds the latest metric only.
CacheInsert_Replaces(cache, stat_id, h) ==
    [x \in {stat_id} |-> h]

\* HashMap::insert / *last_hash = stat_hash.
CacheInsert(cache, stat_id, h) ==
    [x \in DOMAIN cache \cup {stat_id} |-> IF x = stat_id THEN h ELSE cache[x]]

\* Mutant of KeepStat: the cache is not consulted.
KeepStat_AlwaysKeeps(cache, stat) == TRUE

\* The closure of .filter(): whether `stat` is kept, given the cache as the
\* entries before it left it.
KeepStat(cache, stat) ==
    IF stat.id \in DOMAIN cache
      THEN cache[stat.id] # StatHash(stat.stats)
      ELSE TRUE

\* stats.0.into_iter().filter(..).collect() with its effect on the cache: the
\* entries are visited front to back, each one against the cache the
\* earlier ones left.
RECURSIVE FilterStats(_, _)
FilterStats(stats, cache) ==
    IF stats = <<>>
      THEN [kept |-> <<>>, cache |-> cache]
      ELSE LET stat == Head(stats)
               keep == KeepStat(cache, stat)
               rest == FilterStats(Tail(stats),
                          IF keep THEN CacheInsert(cache, stat.id, StatHash(stat.stats))
                                  ELSE cache)
           IN [kept |-> IF keep THEN <<stat>> \o rest.kept ELSE rest.kept,
               cache |-> rest.cache]

\* Mutant of SendPeerStatsBody: the StatsUpdate is sent even when nothing is
\* left after filtering.
SendPeerStatsBody_SendsAlways(stats) ==
    LET r == FilterStats(stats, sent_stats_cache)
    IN /\ sent_stats_cache' = r.cache
       /\ stats_calls' = stats_calls + 1
       /\ last_stats' = [stats |-> stats, filtered |-> r.kept,
                         repeated |-> stats_calls > 0 /\ stats = last_stats.stats]
       /\ peer_events' = UnboundedSend(peer_events, StatsUpdate(id, r.kept))
       /\ UNCHANGED receiver_open

\* Mutant of SendPeerStatsBody: the hashes are recorded only when the
\* StatsUpdate was accepted by the channel.
SendPeerStatsBody_RecordsOnlyIfSent(stats) ==
    LET r == FilterStats(stats, sent_stats_cache)
    IN /\ sent_stats_cache' = IF r.kept # <<>> /\ ~receiver_open
                                THEN sent_stats_cache
                                ELSE r.cache
       /\ stats_calls' = stats_calls + 1
       /\ last_stats' = [stats |-> stats, filtered |-> r.kept,
                         repeated |-> stats_calls > 0 /\ stats = last_stats.stats]
       /\ peer_events' = IF r.kept # <<>>
                           THEN UnboundedSend(peer_events, StatsUpdate(id, r.kept))
                           ELSE peer_events
       /\ UNCHANGED receiver_open

\* The body of send_peer_stats(stats): filter against the cache, then send a
\* StatsUpdate if anything is left.  last_stats notes the input, the filtered
\* result and (history only) whether the input repeats the previous call's.
SendPeerStatsBody(stats) ==
    LET r == FilterStats(stats, sent_stats_cache)
    IN /\ sent_stats_cache' = r.cache
       /\ stats_calls' = stats_calls + 1
       /\ last_stats' = [stats |-> stats, filtered |-> r.kept,
                         repeated |-> stats_calls > 0 /\ stats = last_stats.stats]
       /\ peer_events' = IF r.kept # <<>>
                           THEN UnboundedSend(peer_events, StatsUpdate(id, r.kept))
                           ELSE peer_events
       /\ UNCHANGED receiver_open

\* send_peer_stats(stats) called directly.
SendPeerStats(stats) ==
    /\ stats_calls + get_stats_pending + get_stats_failures < MaxStatsCalls
    /\ SendPeerStatsBody(stats)
    /\ UNCHANGED <<get_stats_pending, get_stats_failures, iceVars, streamVars,
                   sessionVars, bridgeVars,
                   newVars>>

\* scrape_and_send_peer_stats() is called and awaits the native get_stats().
ScrapeAndSendPeerStats ==
    /\ stats_calls + get_stats_pending + get_stats_failures < MaxStatsCalls
    /\ get_stats_pending' = get_stats_pending + 1
    /\ UNCHANGED <<sent_stats_cache, stats_calls, last_stats, get_stats_failures,
                   eventVars, iceVars,
                   streamVars, sessionVars, bridgeVars,
                   newVars>>

\* get_stats() answered Ok(stats): the snapshot goes through send_peer_stats().
GetStatsOk(stats) ==
    /\ get_stats_pending > 0
    /\ get_stats_pending' = get_stats_pending - 1
    /\ SendPeerStatsBody(stats)
    /\ UNCHANGED <<get_stats_failures, iceVars, streamVars, sessionVars, bridgeVars,
                   newVars>>

\* Mutant of GetStatsErr: after a failed fetch the cache is reset.
GetStatsErr_ClearsCache ==
    /\ get_stats_pending > 0
    /\ get_stats_pending' = get_stats_pending - 1
    /\ get_stats_failures' = get_stats_failures + 1
    /\ sent_stats_cache' = [x \in {} |-> None]
    /\ UNCHANGED <<stats_calls, last_stats, eventVars, iceVars, streamVars,
                   sessionVars, bridgeVars, newVars>>

\* get_stats() answered Err(e): the error is logged and nothing else happens.
GetStatsErr ==
    /\ get_stats_pending > 0
    /\ get_stats_pending' = get_stats_pending - 1
    /\ get_stats_failures' = get_stats_failures + 1
    /\ UNCHANGED <<sent_stats_cache, stats_calls, last_stats, eventVars, iceVars,
                   streamVars, sessionVars, bridgeVars,
                   newVars>>

NextStats ==
    \/ \E stats \in Snapshots : SendPeerStats(stats)
    \/ ScrapeAndSendPeerStats
    \/ \E stats \in Snapshots : GetStatsOk(stats)
    \/ GetStatsErr
    \/ CloseReceiver

SpecStats == Init /\ [][NextStats]_vars

----------------------------------------------------------------------------
(* PeerConnection::update_local_stream *)

\* Result::Ok and Result::Err.
Ok(v) == [ok |-> TRUE, value |-> v]
Err(e) == [ok |-> FALSE, error |-> e]

\* HashMap::new(): no media exchange state updates.
EmptyUpdates == [x \in {} |-> "Enabled"]

\* The updates MediaConnections::insert_local_tracks() answers with.
StateUpdates == [x \in {"TrackId(1)"} |-> "Enabled"]

\* What MediaConnections::get_tracks_request(criteria) can report: nothing
\* needed, or the numbers of audio and video tracks needed.
TracksRequests ==
    { None,
      Some([audio |-> 1, video |-> 2]),
      Some([audio |-> 2, video |-> 1]),
      Some([audio |-> 0, video |-> 3]) }

\* What MediaManager::get_tracks() can return: (local_track, is_new) pairs in
\* the collaborator's order.
MediaTracks ==
    { <<[local_track |-> "display", is_new |-> FALSE]>>,
      <<[local_track |-> "audio", is_new |-> TRUE]>>,
      <<[local_track |-> "audio", is_new |-> TRUE],
        [local_track |-> "video", is_new |-> TRUE]>>,
      <<[local_track |-> "video", is_new |-> TRUE],
        [local_track |-> "audio", is_new |-> TRUE]>>,
      <<[local_track |-> "display", is_new |-> FALSE],
        [local_track |-> "audio", is_new |-> TRUE]>> }

\* PeerEvent::FailedLocalMedia and PeerEvent::NewLocalTrack.
FailedLocalMedia(error) == [type |-> "FailedLocalMedia", error |-> error]
NewLocalTrack(local_track) == [type |-> "NewLocalTrack", local_track |-> local_track]

\* SimpleTracksRequest::try_from(request): a request for more than one audio
\* or more than two video tracks is not a SimpleTracksRequest.
TryFromTracksRequest(request) ==
    IF request.audio > MaxAudio \/ request.video > MaxVideo
      THEN Err("InvalidLocalTracks")
      ELSE Ok(request)

\* Mutant of GetSimpleTracksRequest: with nothing needed, the default
\* capabilities are requested.
GetSimpleTracksRequest_DefaultsWhenNone(request, merge_ok) ==
    IF request = None
      THEN Ok(Some([audio |-> 1, video |-> 1]))
      ELSE LET required_caps == TryFromTracksRequest(request[1])
           IN IF ~required_caps.ok THEN required_caps
              ELSE IF ~merge_ok THEN Err("InvalidLocalTracks")
              ELSE Ok(Some(required_caps.value))

\* Mutant of GetSimpleTracksRequest: the request is used whether or not it
\* is a SimpleTracksRequest.
GetSimpleTracksRequest_IgnoresTryFromError(request, merge_ok) ==
    IF request = None
      THEN Ok(None)
      ELSE IF ~merge_ok THEN Err("InvalidLocalTracks")
      ELSE Ok(Some(request[1]))

\* get_simple_tracks_request(criteria), given what the registry reports and
\* whether merging with send_constraints succeeds; both errors are
\* TracksRequestErrors, i.e. UpdateLocalStreamError::InvalidLocalTracks.
GetSimpleTracksRequest(request, merge_ok) ==
    IF request = None
      THEN Ok(None)
      ELSE LET required_caps == TryFromTracksRequest(request[1])
           IN IF ~required_caps.ok THEN required_caps
              ELSE IF ~merge_ok THEN Err("InvalidLocalTracks")
              ELSE Ok(Some(required_caps.value))

\* Mutant of InspectErr: an error is returned without an event.
InspectErr_Silent(events, result) == events

\* The inspect_err() of update_local_stream(): an Err result is reported as
\* FailedLocalMedia before it is returned.
InspectErr(events, result) ==
    IF result.ok
      THEN events
      ELSE UnboundedSend(events, FailedLocalMedia(result.error))

\* Mutant of SendNewLocalTracks: an event for every track, new or reused.
RECURSIVE SendNewLocalTracks_All(_, _)
SendNewLocalTracks_All(events, media_tracks) ==
    IF media_tracks = <<>>
      THEN events
      ELSE SendNewLocalTracks_All(
              UnboundedSend(events, NewLocalTrack(Head(media_tracks).local_track)),
              Tail(media_tracks))

\* Mutant of SendNewLocalTracks: the loop ends at the first send the channel
\* does not accept.
SendNewLocalTracks_StopsWhenClosed(events, media_tracks) ==
    LET IsNew(e) == e.is_new
        new == SelectSeq(media_tracks, IsNew)
    IN IF new = <<>>
         THEN events
         ELSE IF receiver_open
         THEN events \o [k \in 1..Len(new) |->
                            [event |-> NewLocalTrack(new[k].local_track),
                             accepted |-> TRUE]]
         ELSE Append(events, [event |-> NewLocalTrack(new[1].local_track),
                              accepted |-> FALSE])

\* The closing loop of inner_update_local_stream(): a NewLocalTrack for each
\* pair with is_new set, in the order of media_tracks.
RECURSIVE SendNewLocalTracks(_, _)
SendNewLocalTracks(events, media_tracks) ==
    IF media_tracks = <<>>
      THEN events
      ELSE SendNewLocalTracks(
              IF Head(media_tracks).is_new
                THEN UnboundedSend(events,
                                   NewLocalTrack(Head(media_tracks).local_track))
                ELSE events,
              Tail(media_tracks))

\* The record of call i once it has returned `result`.
Returned(i, result) ==
    [uls_calls EXCEPT ![i] = [@ EXCEPT !.pc = "returned", !.media_tracks = <<>>,
                                       !.result = Some(result)]]

\* The positions at which earlier update_local_stream() calls are suspended
\* (history only: noted in the record of a call when it is made).
InFlight == {uls_calls[j].pc : j \in 1..Len(uls_calls)} \ {"returned"}

\* Mutant of UpdateLocalStream: a call is made only when no other call is in
\* flight.
UpdateLocalStream_Exclusive(request, merge_ok) ==
    /\ session_alive
    /\ Len(uls_calls) < MaxUlsCalls
    /\ InFlight = {}
    /\ LET required_caps == GetSimpleTracksRequest(request, merge_ok)
           call == [request |-> request, pc |-> "returned", media_tracks |-> <<>>,
                    result |-> None, in_flight |-> InFlight]
       IN IF ~required_caps.ok
            THEN /\ uls_calls' = Append(uls_calls,
                                        [call EXCEPT !.result = Some(required_caps)])
                 /\ peer_events' = InspectErr(peer_events, required_caps)
                 /\ UNCHANGED get_tracks_calls
            ELSE IF required_caps.value = None
            THEN /\ uls_calls' = Append(uls_calls,
                                        [call EXCEPT !.result = Some(Ok(EmptyUpdates))])
                 /\ peer_events' = InspectErr(peer_events, Ok(EmptyUpdates))
                 /\ UNCHANGED get_tracks_calls
            ELSE /\ uls_calls' = Append(uls_calls, [call EXCEPT !.pc = "get_tracks"])
                 /\ get_tracks_calls' = get_tracks_calls + 1
                 /\ UNCHANGED peer_events
    /\ UNCHANGED <<insert_local_tracks_calls, receiver_open, iceVars, statsVars,
                   sessionVars, bridgeVars, newVars>>

\* update_local_stream(criteria) up to its first suspension.  The registry
\* reports `request`; with nothing needed the call returns an empty map, with
\* a request that cannot be built or merged it fails, otherwise it calls
\* media_manager.get_tracks() and suspends.
UpdateLocalStream(request, merge_ok) ==
    /\ session_alive
    /\ Len(uls_calls) < MaxUlsCalls
    /\ LET required_caps == GetSimpleTracksRequest(request, merge_ok)
           call == [request |-> request, pc |-> "returned", media_tracks |-> <<>>,
                    result |-> None, in_flight |-> InFlight]
       IN IF ~required_caps.ok
            THEN /\ uls_calls' = Append(uls_calls,
                                        [call EXCEPT !.result = Some(required_caps)])
                 /\ peer_events' = InspectErr(peer_events, required_caps)
                 /\ UNCHANGED get_tracks_calls
            ELSE IF required_caps.value = None
            THEN /\ uls_calls' = Append(uls_calls,
                                        [call EXCEPT !.result = Some(Ok(EmptyUpdates))])
                 /\ peer_events' = InspectErr(peer_events, Ok(EmptyUpdates))
                 /\ UNCHANGED get_tracks_calls
            ELSE /\ uls_calls' = Append(uls_calls, [call EXCEPT !.pc = "get_tracks"])
                 /\ get_tracks_calls' = get_tracks_calls + 1
                 /\ UNCHANGED peer_events
    /\ UNCHANGED <<insert_local_tracks_calls, receiver_open, iceVars, statsVars,
                   sessionVars, bridgeVars, newVars>>

\* media_manager.get_tracks() answers call i with media_tracks: the call goes
\* on to parse_tracks().
GetTracksOk(i, media_tracks) ==
    /\ i \in 1..Len(uls_calls)
    /\ uls_calls[i].pc = "get_tracks"
    /\ uls_calls' = [uls_calls EXCEPT ![i] =
                        [@ EXCEPT !.pc = "parse_tracks", !.media_tracks = media_tracks]]
    /\ UNCHANGED <<get_tracks_calls, insert_local_tracks_calls, eventVars, iceVars,
                   statsVars, sessionVars, bridgeVars,
                   newVars>>

\* media_manager.get_tracks() fails call i.
GetTracksErr(i) ==
    /\ i \in 1..Len(uls_calls)
    /\ uls_calls[i].pc = "get_tracks"
    /\ uls_calls' = Returned(i, Err("CouldNotGetLocalMedia"))
    /\ peer_events' = InspectErr(peer_events, Err("CouldNotGetLocalMedia"))
    /\ UNCHANGED <<get_tracks_calls, insert_local_tracks_calls, receiver_open,
                   iceVars, statsVars, sessionVars, bridgeVars,
                   newVars>>

\* required_caps.parse_tracks() accepts the tracks of call i: the call goes on
\* to media_connections.insert_local_tracks().
ParseTracksOk(i) ==
    /\ i \in 1..Len(uls_calls)
    /\ uls_calls[i].pc = "parse_tracks"
    /\ uls_calls' = [uls_calls EXCEPT ![i].pc = "insert_local_tracks"]
    /\ insert_local_tracks_calls' = insert_local_tracks_calls + 1
    /\ UNCHANGED <<get_tracks_calls, eventVars, iceVars, statsVars, sessionVars, bridgeVars,
                   newVars>>

\* required_caps.parse_tracks() rejects the tracks of call i.
ParseTracksErr(i) ==
    /\ i \in 1..Len(uls_calls)
    /\ uls_calls[i].pc = "parse_tracks"
    /\ uls_calls' = Returned(i, Err("InvalidLocalTracks"))
    /\ peer_events' = InspectErr(peer_events, Err("InvalidLocalTracks"))
    /\ UNCHANGED <<get_tracks_calls, insert_local_tracks_calls, receiver_open,
                   iceVars, statsVars, sessionVars, bridgeVars,
                   newVars>>

\* insert_local_tracks() succeeds for call i: the new tracks are announced
\* and the updates returned.
InsertLocalTracksOk(i) ==
    /\ i \in 1..Len(uls_calls)
    /\ uls_calls[i].pc = "insert_local_tracks"
    /\ uls_calls' = Returned(i, Ok(StateUpdates))
    /\ peer_events' =
          InspectErr(SendNewLocalTracks(peer_events, uls_calls[i].media_tracks),
                     Ok(StateUpdates))
    /\ UNCHANGED <<get_tracks_calls, insert_local_tracks_calls, receiver_open,
                   iceVars, statsVars, sessionVars, bridgeVars,
                   newVars>>

\* Mutant of InsertLocalTracksErr: the new tracks are announced before the
\* outcome of the insertion is looked at.
InsertLocalTracksErr_AnnouncesTracks(i) ==
    /\ i \in 1..Len(uls_calls)
    /\ uls_calls[i].pc = "insert_local_tracks"
    /\ uls_calls' = Returned(i, Err("InsertLocalTracksError"))
    /\ peer_events' =
          InspectErr(SendNewLocalTracks(peer_events, uls_calls[i].media_tracks),
                     Err("InsertLocalTracksError"))
    /\ UNCHANGED <<get_tracks_calls, insert_local_tracks_calls, receiver_open,
                   iceVars, statsVars, sessionVars, bridgeVars, newVars>>

\* insert_local_tracks() fails for call i.
InsertLocalTracksErr(i) ==
    /\ i \in 1..Len(uls_calls)
    /\ uls_calls[i].pc = "insert_local_tracks"
    /\ uls_calls' = Returned(i, Err("InsertLocalTracksError"))
    /\ peer_events' = InspectErr(peer_events, Err("InsertLocalTracksError"))
    /\ UNCHANGED <<get_tracks_calls, insert_local_tracks_calls, receiver_open,
                   iceVars, statsVars, sessionVars, bridgeVars,
                   newVars>>

NextStream ==
    \/ \E request \in TracksRequests, merge_ok \in BOOLEAN :
          UpdateLocalStream(request, merge_ok)
    \/ \E i \in 1..MaxUlsCalls, media_tracks \in MediaTracks :
          GetTracksOk(i, media_tracks)
    \/ \E i \in 1..MaxUlsCalls : GetTracksErr(i)
    \/ \E i \in 1..MaxUlsCalls : ParseTracksOk(i)
    \/ \E i \in 1..MaxUlsCalls : ParseTracksErr(i)
    \/ \E i \in 1..MaxUlsCalls : InsertLocalTracksOk(i)
    \/ \E i \in 1..MaxUlsCalls : InsertLocalTracksErr(i)
    \/ CloseReceiver

SpecStream == Init /\ [][NextStream]_vars

----------------------------------------------------------------------------
(* PeerConnection::bind_event_listeners, Drop *)

\* What the native connection passes to the state-change callbacks.
IceConnectionStates == {"Checking", "Connected"}
PeerConnectionStates == {"Connecting", "Connected"}

\* What it passes to on_ice_candidate_error and on_track.
IceCandidateErrors ==
    { [address |-> None, port |-> None, url |-> "stun:example.org",
       error_code |-> 701, error_text |-> "timeout"] }
RemoteTracks == {"remote-track"}

\* The PeerEvents of the callbacks.
IceCandidateDiscovered(peer_id, candidate) ==
    [type |-> "IceCandidateDiscovered", peer_id |-> peer_id,
     candidate |-> candidate.candidate,
     sdp_m_line_index |-> candidate.sdp_m_line_index,
     sdp_mid |-> candidate.sdp_mid]
IceCandidateError(peer_id, error) ==
    [type |-> "IceCandidateError", peer_id |-> peer_id, address |-> error.address,
     port |-> error.port, url |-> error.url, error_code |-> error.error_code,
     error_text |-> error.error_text]
IceConnectionStateChanged(peer_id, ice_connection_state) ==
    [type |-> "IceConnectionStateChanged", peer_id |-> peer_id,
     ice_connection_state |-> ice_connection_state]
PeerConnectionStateChanged(peer_id, peer_connection_state) ==
    [type |-> "PeerConnectionStateChanged", peer_id |-> peer_id,
     peer_connection_state |-> peer_connection_state]
NewRemoteTrack(track) == [type |-> "NewRemoteTrack", track |-> track]

\* Strong counts of the two Rcs the closures hold Weak references to: the
\* session holds one of each, and every spawned add_remote_track() task
\* holds the registry until it completes.
SenderStrong == IF session_alive THEN 1 ELSE 0
MediaConnectionsStrong ==
    (IF session_alive THEN 1 ELSE 0) + Len(remote_track_tasks)

\* Mutant of Upgrade: the closure holds the Rc itself.
Upgrade_Strong(strong) == TRUE

\* Weak::upgrade() succeeds while a strong reference is left.
Upgrade(strong) == strong > 0

\* The native connection fires `callback` with `arg`: recorded whether or not
\* a closure is registered for it.
Fire(callback, arg) ==
    /\ Len(fired) < MaxFirings
    /\ fired' = Append(fired, [callback |-> callback, arg |-> arg,
                               after_drop |-> ~session_alive])

\* The closure of a callback that reports `event`: runs if registered, sends
\* if the sender can be upgraded.
SenderClosure(callback, arg, event) ==
    /\ Fire(callback, arg)
    /\ peer_events' =
          IF callback \in callbacks /\ Upgrade(SenderStrong)
            THEN UnboundedSend(peer_events, event)
            ELSE peer_events
    /\ UNCHANGED <<receiver_open, session_alive, callbacks, remote_track_tasks,
                   iceVars, statsVars, streamVars, bridgeVars, newVars>>

OnIceCandidate(candidate) ==
    SenderClosure("on_ice_candidate", candidate,
                  IceCandidateDiscovered(id, candidate))

OnIceCandidateError(error) ==
    SenderClosure("on_ice_candidate_error", error, IceCandidateError(id, error))

OnIceConnectionStateChange(ice_connection_state) ==
    SenderClosure("on_ice_connection_state_change", ice_connection_state,
                  IceConnectionStateChanged(id, ice_connection_state))

\* Mutant of OnConnectionStateChange: the closure calls the handler of the
\* ICE connection state.
OnConnectionStateChange_AsIceState(peer_connection_state) ==
    SenderClosure("on_connection_state_change", peer_connection_state,
                  IceConnectionStateChanged(id, peer_connection_state))

OnConnectionStateChange(peer_connection_state) ==
    SenderClosure("on_connection_state_change", peer_connection_state,
                  PeerConnectionStateChanged(id, peer_connection_state))

\* The on_track closure: if registered and the registry can be upgraded, it
\* spawns the add_remote_track() task and returns.
OnTrack(track) ==
    /\ Fire("on_track", track)
    /\ remote_track_tasks' =
          IF "on_track" \in callbacks /\ Upgrade(MediaConnectionsStrong)
            THEN Append(remote_track_tasks, track)
            ELSE remote_track_tasks
    /\ UNCHANGED <<eventVars, session_alive, callbacks, iceVars, statsVars,
                   streamVars, bridgeVars, newVars>>

\* A spawned add_remote_track() task completes: on success the registry
\* announces the track through its own clone of the channel's sender.
AddRemoteTrackReturns(ok) ==
    /\ remote_track_tasks # <<>>
    /\ remote_track_tasks' = Tail(remote_track_tasks)
    /\ peer_events' =
          IF ok THEN UnboundedSend(peer_events, NewRemoteTrack(Head(remote_track_tasks)))
                ELSE peer_events
    /\ UNCHANGED <<receiver_open, session_alive, callbacks, fired, iceVars,
                   statsVars, streamVars, bridgeVars, newVars>>

\* The callbacks drop() sets to None.
Unregistered == {"on_track", "on_ice_candidate", "on_ice_candidate_error"}

\* The last Rc<PeerConnection> goes away: drop() unregisters callbacks, then
\* the fields are released, the session's track_events_sender among them.  No method of the session is running (each
\* borrows the session).
DropSession ==
    /\ session_alive
    /\ get_stats_pending = 0
    /\ \A i \in 1..Len(uls_calls) : uls_calls[i].pc = "returned"
    /\ \A i \in 1..Len(srd_calls) : srd_calls[i].pc = "returned"
    /\ \A j \in 1..Len(aic_calls) : aic_calls[j].result # "pending"
    /\ callbacks' = callbacks \ Unregistered
    /\ session_alive' = FALSE
    /\ track_event_senders' = track_event_senders \ {"session"}
    /\ UNCHANGED <<remote_track_tasks, fired, track_events, bridge_task, handled,
                   sent_after_drop,
                   eventVars, iceVars, statsVars, streamVars, newVars>>

NextSession ==
    \/ \E candidate \in IceCandidates : OnIceCandidate(candidate)
    \/ \E error \in IceCandidateErrors : OnIceCandidateError(error)
    \/ \E ice_connection_state \in IceConnectionStates :
          OnIceConnectionStateChange(ice_connection_state)
    \/ \E peer_connection_state \in PeerConnectionStates :
          OnConnectionStateChange(peer_connection_state)
    \/ \E track \in RemoteTracks : OnTrack(track)
    \/ \E ok \in BOOLEAN : AddRemoteTrackReturns(ok)
    \/ DropSession
    \/ CloseReceiver

SpecSession == Init /\ [][NextSession]_vars

----------------------------------------------------------------------------
(* The task forwarding TrackEvents (PeerConnection::new, handle_track_event) *)

\* The Senders and Receivers that can hold a clone of track_events_sender.
Tracks == {"TrackId(1)", "TrackId(2)"}

\* TrackEvent::MuteUpdateIntention and TrackEvent::MediaExchangeIntention.
MuteUpdateIntention(track_id, muted) ==
    [type |-> "MuteUpdateIntention", id |-> track_id, muted |-> muted]
MediaExchangeIntention(track_id, enabled) ==
    [type |-> "MediaExchangeIntention", id |-> track_id, enabled |-> enabled]

\* The TrackEvents the track `track_id` can send.
TrackEventsOf(track_id) ==
    {MuteUpdateIntention(track_id, muted) : muted \in BOOLEAN}
        \cup {MediaExchangeIntention(track_id, enabled) : enabled \in BOOLEAN}

\* PeerEvent::MediaUpdateCommand { command: Command::UpdateTracks { .. } }.
MediaUpdateCommand(peer_id, tracks_patches) ==
    [type |-> "MediaUpdateCommand",
     command |-> [type |-> "UpdateTracks", peer_id |-> peer_id,
                  tracks_patches |-> tracks_patches]]

\* Mutant of TrackPatchCommand: the fields of the two intentions swapped.
TrackPatchCommand_Swapped(event) ==
    IF event.type = "MediaExchangeIntention"
      THEN [id |-> event.id, muted |-> Some(event.enabled), enabled |-> None]
      ELSE [id |-> event.id, muted |-> None, enabled |-> Some(event.muted)]

\* The match of handle_track_event(): the patch of an intention.
TrackPatchCommand(event) ==
    IF event.type = "MediaExchangeIntention"
      THEN [id |-> event.id, muted |-> None, enabled |-> Some(event.enabled)]
      ELSE [id |-> event.id, muted |-> Some(event.muted), enabled |-> None]

\* handle_track_event(peer_id, peer_events_sender, event).
HandleTrackEvent(peer_id, events, event) ==
    UnboundedSend(events, MediaUpdateCommand(peer_id, <<TrackPatchCommand(event)>>))

\* A Sender or Receiver is created with a clone of the session's
\* track_events_sender.
CreateTrack(track_id) ==
    /\ session_alive
    /\ track_id \notin track_event_senders
    /\ track_event_senders' = track_event_senders \cup {track_id}
    /\ UNCHANGED <<track_events, bridge_task, handled, sent_after_drop, eventVars, iceVars,
                   statsVars, streamVars, sessionVars, newVars>>

\* A Sender or Receiver is dropped, and its clone of the sender with it.
DropTrack(track_id) ==
    /\ track_id \in track_event_senders \ {"session"}
    /\ track_event_senders' = track_event_senders \ {track_id}
    /\ UNCHANGED <<track_events, bridge_task, handled, sent_after_drop, eventVars, iceVars,
                   statsVars, streamVars, sessionVars, newVars>>

\* A track sends an intention on its clone of the sender.
SendTrackEvent(track_id, event) ==
    /\ track_id \in track_event_senders \ {"session"}
    /\ Len(track_events) + Len(handled) < MaxIntentions
    /\ track_events' = Append(track_events, event)
    /\ sent_after_drop' = Append(sent_after_drop, ~session_alive)
    /\ UNCHANGED <<track_event_senders, bridge_task, handled, eventVars, iceVars,
                   statsVars, streamVars, sessionVars, newVars>>

\* Mutant of BridgeNext: the task forwards only while the session is alive
\* and discards the intentions it receives afterwards.
BridgeNext_OnlyWhileSessionAlive ==
    /\ bridge_task = "running"
    /\ track_events # <<>>
    /\ track_events' = Tail(track_events)
    /\ handled' = Append(handled, Head(track_events))
    /\ peer_events' = IF session_alive
                        THEN HandleTrackEvent(id, peer_events, Head(track_events))
                        ELSE peer_events
    /\ UNCHANGED <<track_event_senders, bridge_task, sent_after_drop, receiver_open,
                   iceVars, statsVars, streamVars, sessionVars, newVars>>

\* The task's track_events_rx.next().await yields Some(e): one iteration of
\* the loop.
BridgeNext ==
    /\ bridge_task = "running"
    /\ track_events # <<>>
    /\ track_events' = Tail(track_events)
    /\ handled' = Append(handled, Head(track_events))
    /\ peer_events' = HandleTrackEvent(id, peer_events, Head(track_events))
    /\ UNCHANGED <<track_event_senders, bridge_task, sent_after_drop, receiver_open, iceVars,
                   statsVars, streamVars, sessionVars, newVars>>

\* Mutant of BridgeTerminates: the task ends with the session.
BridgeTerminates_WithSession ==
    /\ bridge_task = "running"
    /\ ~session_alive
    /\ bridge_task' = "terminated"
    /\ UNCHANGED <<track_events, track_event_senders, handled, sent_after_drop, eventVars, iceVars,
                   statsVars, streamVars, sessionVars, newVars>>

\* track_events_rx.next().await yields None, which it does once the queue is
\* empty and every sender is gone: the loop and the task end.
BridgeTerminates ==
    /\ bridge_task = "running"
    /\ track_events = <<>>
    /\ track_event_senders = {}
    /\ bridge_task' = "terminated"
    /\ UNCHANGED <<track_events, track_event_senders, handled, sent_after_drop, eventVars, iceVars,
                   statsVars, streamVars, sessionVars, newVars>>

NextBridge ==
    \/ \E track_id \in Tracks : CreateTrack(track_id)
    \/ \E track_id \in Tracks : DropTrack(track_id)
    \/ \E track_id \in Tracks :
          \E event \in TrackEventsOf(track_id) : SendTrackEvent(track_id, event)
    \/ BridgeNext
    \/ BridgeTerminates
    \/ DropSession
    \/ CloseReceiver

SpecBridge == Init /\ [][NextBridge]_vars

\* The executor runs a task that is ready: the forwarding task is not left
\* waiting with an event queued or with its channel closed.
SpecBridgeFair == SpecBridge /\ WF_vars(BridgeNext) /\ WF_vars(BridgeTerminates)

----------------------------------------------------------------------------
(* The session used for one kind of operation *)

\* No operation of the kind has been started.
IceIdle == aic_calls = <<>> /\ srd_calls = <<>>
StatsIdle == stats_calls = 0 /\ get_stats_pending = 0 /\ get_stats_failures = 0
StreamIdle == uls_calls = <<>>
SessionIdle == fired = <<>> /\ session_alive

\* A run of statistics reporting, of local stream updates or of native
\* callbacks on a channel that is open or gets closed at any moment, or of
\* ICE signalling (which sends nothing) on a closed one.
NextOneKind ==
    \/ ~receiver_open /\ StatsIdle /\ StreamIdle /\ SessionIdle /\ Next
    \/ IceIdle /\ StreamIdle /\ SessionIdle /\ NextStats
    \/ IceIdle /\ StatsIdle /\ SessionIdle /\ NextStream
    \/ IceIdle /\ StatsIdle /\ StreamIdle /\ NextSession

SpecOneKind == Init /\ [][NextOneKind]_vars

-----------------------------------------------------------------------------
(* PeerConnection::new *)

\* The state before PeerConnection::new() is called: the caller holds the
\* event channel, and nothing of the session exists.
InitNew ==
    /\ has_remote_description = FALSE
    /\ ice_candidates_buffer = <<>>
    /\ srd_calls = <<>>
    /\ aic_calls = <<>>
    /\ native_candidates = <<>>
    /\ native_descriptions = 0
    /\ sync_receivers_calls = 0
    /\ sent_stats_cache = [x \in {} |-> None]
    /\ stats_calls = 0
    /\ last_stats = [stats |-> <<>>, filtered |-> <<>>, repeated |-> FALSE]
    /\ get_stats_pending = 0
    /\ get_stats_failures = 0
    /\ peer_events = <<>>
    /\ receiver_open = TRUE
    /\ uls_calls = <<>>
    /\ get_tracks_calls = 0
    /\ insert_local_tracks_calls = 0
    /\ session_alive = FALSE
    /\ callbacks = {}
    /\ remote_track_tasks = <<>>
    /\ fired = <<>>
    /\ track_events = <<>>
    /\ track_event_senders = {}
    /\ bridge_task = "not spawned"
    /\ handled = <<>>
    /\ sent_after_drop = <<>>
    /\ construction = "not started"
    /\ native_new_calls = 0

\* new() is called: it invokes platform::RtcPeerConnection::new() and awaits.
New ==
    /\ construction = "not started"
    /\ construction' = "RtcPeerConnection::new"
    /\ native_new_calls' = native_new_calls + 1
    /\ UNCHANGED <<iceVars, statsVars, eventVars, streamVars, sessionVars, bridgeVars>>

\* The native connection was created: the track channel is made, the bridge
\* task spawned, the fields initialised and the five callbacks registered;
\* new() returns Ok.
NativeNewOk ==
    /\ construction = "RtcPeerConnection::new"
    /\ construction' = "done"
    /\ track_event_senders' = {"session"}
    /\ bridge_task' = "running"
    /\ session_alive' = TRUE
    /\ callbacks' = Callbacks
    /\ has_remote_description' = FALSE
    /\ ice_candidates_buffer' = <<>>
    /\ sent_stats_cache' = [x \in {} |-> None]
    /\ UNCHANGED <<native_new_calls, srd_calls, aic_calls, native_candidates,
                   native_descriptions, sync_receivers_calls, stats_calls,
                   last_stats, get_stats_pending, get_stats_failures, eventVars,
                   streamVars, remote_track_tasks, fired, track_events, handled,
                   sent_after_drop>>

\* Mutant of NativeNewErr: a failed creation is attempted once more.
NativeNewErr_Retries ==
    /\ construction = "RtcPeerConnection::new"
    /\ construction' = IF native_new_calls < 2 THEN construction
                       ELSE "PeerCreationError"
    /\ native_new_calls' = IF native_new_calls < 2 THEN native_new_calls + 1
                           ELSE native_new_calls
    /\ UNCHANGED <<iceVars, statsVars, eventVars, streamVars, sessionVars, bridgeVars>>

\* The native creation failed: `?` returns PeerCreationError at once.
NativeNewErr ==
    /\ construction = "RtcPeerConnection::new"
    /\ construction' = "PeerCreationError"
    /\ UNCHANGED <<native_new_calls, iceVars, statsVars, eventVars, streamVars,
                   sessionVars, bridgeVars>>

\* The construction, and the life of the constructed session's callbacks.
NextNew ==
    \/ New
    \/ NativeNewOk
    \/ NativeNewErr
    \/ construction = "done" /\ NextSession

SpecNew == InitNew /\ [][NextNew]_vars

----------------------------------------------------------------------------
(* Derived histories *)

\* The candidates of all add_ice_candidate() calls, in call order.
Issued == [j \in 1..Len(aic_calls) |-> aic_calls[j].candidate]

\* The candidates of the calls that were pushed to the buffer, in call order.
BufferedIssued ==
    LET ToBuffer(a) == a.route = "buffer"
        calls == SelectSeq(aic_calls, ToBuffer)
    IN [j \in 1..Len(calls) |-> calls[j].candidate]

\* The triples the native connection received, in the order it received them.
Received == [k \in 1..Len(native_candidates) |-> Triple(native_candidates[k])]

\* The triples the native connection received from a flush, in that order.
Flushed ==
    LET ByFlush(e) == e.by = "flush"
        calls == SelectSeq(native_candidates, ByFlush)
    IN [k \in 1..Len(calls) |-> Triple(calls[k])]

\* Some set_remote_description() call has drained the buffer.
Drained ==
    \E i \in 1..Len(srd_calls) :
        \/ srd_calls[i].pc = "try_join_all"
        \/ srd_calls[i].result \in {"Ok", "AddIceCandidateFailed"}

----------------------------------------------------------------------------
(* Claims *)

\* C1: as long as no native set_remote_description has resolved successfully,
\* the native connection has received no add_ice_candidate submission and
\* every candidate passed to add_ice_candidate() so far sits in the buffer.
C1_NothingSubmittedBeforeRemoteDescription ==
    native_descriptions = 0 =>
        /\ native_candidates = <<>>
        /\ ice_candidates_buffer = Issued

\* C1 witness: two candidates were passed in and are held back while a
\* set_remote_description() call is still waiting for the native connection.
C1_Witness ==
    /\ native_descriptions = 0
    /\ Len(ice_candidates_buffer) = 2
    /\ \E i \in 1..Len(srd_calls) : srd_calls[i].pc = "set_remote_description"

\* C2: the candidates a flush submits reach the native connection in the
\* order in which add_ice_candidate() buffered them: what the native
\* connection got from flushes is an initial segment of the buffered calls'
\* candidates, duplicates included.
C2_FlushKeepsArrivalOrder == IsPrefix(Flushed, BufferedIssued)

\* C2 witness: a flush has submitted two different buffered candidates.
C2_Witness ==
    /\ Len(Flushed) = 2
    /\ Flushed[1] # Flushed[2]

\* C3: once a set_remote_description() call has returned Ok, the buffer is
\* empty and the native connection got from flushes exactly the buffered
\* candidates, each once and with its triple; and at no time, whatever calls
\* repeat or overlap, has a triple been flushed more often than it was
\* buffered.
C3_FlushedExactlyOnce ==
    /\ \A i \in 1..Len(srd_calls) :
          srd_calls[i].result = "Ok" =>
              /\ ice_candidates_buffer = <<>>
              /\ Flushed = BufferedIssued
    /\ \A c \in IceCandidates : Count(Flushed, c) <= Count(BufferedIssued, c)

\* C3 witness: two overlapping set_remote_description() calls have both
\* returned Ok (the first call made was not a renegotiation, the second was
\* made before the flag was set too) after a candidate had been buffered.
C3_Witness ==
    /\ Len(srd_calls) = 2
    /\ \A i \in 1..2 : srd_calls[i].result = "Ok" /\ ~srd_calls[i].renegotiation
    /\ Len(Flushed) >= 1

\* C4: the buffer is non-empty only while the flag is false, in every
\* reachable state.
C4_BufferNonEmptyOnlyWhileFlagFalse ==
    ice_candidates_buffer # <<>> => ~has_remote_description

\* C5: candidates reach the native connection in arrival order: what the
\* native connection has received is an initial segment of the candidates in
\* the order add_ice_candidate() was called with them.
C5_DeliveredInArrivalOrder == IsPrefix(Received, Issued)

\* C6: with the flag set, an add_ice_candidate() call hands its triple to the
\* native connection and leaves the buffer alone; a native rejection makes
\* the call return AddIceCandidateFailed and still leaves the buffer alone;
\* and once a call has drained the buffer, the buffer is empty for good.
C6_PassThroughAfterRemoteDescription ==
    /\ [][(has_remote_description /\ Len(aic_calls') = Len(aic_calls) + 1) =>
            /\ ice_candidates_buffer' = ice_candidates_buffer
            /\ aic_calls'[Len(aic_calls')].route = "native"
            /\ native_candidates' = Append(native_candidates,
                  NativeCall(aic_calls'[Len(aic_calls')].candidate,
                             "add_ice_candidate"))]_vars
    /\ [][\A j \in 1..Len(aic_calls) :
            (aic_calls[j].route = "native" /\ aic_calls'[j] # aic_calls[j]) =>
                /\ aic_calls[j].result = "pending"
                /\ aic_calls'[j].result \in {"Ok", "AddIceCandidateFailed"}
                /\ ice_candidates_buffer' = ice_candidates_buffer
                /\ native_candidates' = native_candidates]_vars
    /\ [](Drained => ice_candidates_buffer = <<>>)

\* C6 witness: after a flush of a buffered candidate, a later candidate went
\* straight to the native connection, which rejected it.
C6_Witness ==
    /\ Drained
    /\ Len(Flushed) = 1
    /\ Len(aic_calls) = 2
    /\ aic_calls[2].route = "native"
    /\ aic_calls[2].result = "AddIceCandidateFailed"
    /\ native_candidates[2].by = "add_ice_candidate"

\* C7: the flag is false after construction and no step ever takes it from
\* true to false.
C7_FlagOnlyRises ==
    /\ has_remote_description = FALSE
    /\ [][has_remote_description => has_remote_description']_vars

\* C7 witness: a renegotiation call (made with the flag set) was rejected by
\* the native connection, and the flag is still set.
C7_Witness ==
    /\ has_remote_description
    /\ \E i \in 1..Len(srd_calls) :
          /\ srd_calls[i].renegotiation
          /\ srd_calls[i].result = "SetRemoteDescriptionFailed"

\* C8: when a call leaves its native set_remote_description without the
\* native connection having applied the description, it returns
\* SetRemoteDescriptionFailed in that very step, and the step changes neither
\* the flag nor the buffer, invokes no sync_receivers() and submits no
\* candidate.
C8_RejectedDescriptionChangesNothing ==
    [][\A i \in 1..Len(srd_calls) :
         (/\ srd_calls[i].pc = "set_remote_description"
          /\ srd_calls'[i].pc # "set_remote_description"
          /\ native_descriptions' = native_descriptions) =>
            /\ srd_calls'[i].pc = "returned"
            /\ srd_calls'[i].result = "SetRemoteDescriptionFailed"
            /\ has_remote_description' = has_remote_description
            /\ ice_candidates_buffer' = ice_candidates_buffer
            /\ sync_receivers_calls' = sync_receivers_calls
            /\ native_candidates' = native_candidates]_vars

\* C8 witness: the only call made was rejected while two candidates were
\* buffered; they are still buffered and the flag is still false.
C8_Witness ==
    /\ Len(srd_calls) = 1
    /\ srd_calls[1].result = "SetRemoteDescriptionFailed"
    /\ Len(ice_candidates_buffer) = 2
    /\ ~has_remote_description

\* C9: a call whose flush got a rejection from the native connection returns
\* AddIceCandidateFailed (and only such a call does), and when it has
\* returned, every candidate that was buffered has been submitted to the
\* native connection all the same.
C9_FailedFlushSubmitsEverything ==
    /\ [][\A i \in 1..Len(srd_calls) :
            (srd_calls[i].pc = "try_join_all" /\ srd_calls'[i].pc = "returned") =>
                (srd_calls'[i].result = "AddIceCandidateFailed"
                    <=> \E k \in 1..Len(srd_calls[i].flush) :
                            srd_calls[i].flush[k].state = "err")]_vars
    /\ [](\A i \in 1..Len(srd_calls) :
            srd_calls[i].result = "AddIceCandidateFailed" =>
                Flushed = BufferedIssued)

\* C9 witness: a flush of two candidates failed and both were submitted.
C9_Witness ==
    /\ FlushFailed
    /\ Len(Flushed) = 2
    /\ Flushed = BufferedIssued

\* C10: after a call has returned AddIceCandidateFailed the buffer is empty
\* and the flag is true, and every add_ice_candidate() call made from then on
\* hands its candidate to the native connection and buffers nothing.
C10_FailedFlushDoesNotRebuffer ==
    /\ [](FlushFailed => ice_candidates_buffer = <<>> /\ has_remote_description)
    /\ [][(FlushFailed /\ Len(aic_calls') = Len(aic_calls) + 1) =>
            /\ ice_candidates_buffer' = <<>>
            /\ native_candidates' = Append(native_candidates,
                  NativeCall(aic_calls'[Len(aic_calls')].candidate,
                             "add_ice_candidate"))]_vars

\* C10 witness: a flush failed and a candidate passed in afterwards went to
\* the native connection.
C10_Witness ==
    /\ FlushFailed
    /\ ice_candidates_buffer = <<>>
    /\ \E j \in 1..Len(aic_calls) :
          aic_calls[j].after_failed_flush /\ aic_calls[j].route = "native"

\* C11: with the flag false, an add_ice_candidate() call returns Ok, appends
\* its triple (and nothing else) to the end of the buffer, and makes no call
\* to the native connection.
C11_BufferingNeverFails ==
    [][(~has_remote_description /\ Len(aic_calls') = Len(aic_calls) + 1) =>
         /\ ice_candidates_buffer' =
               Append(ice_candidates_buffer, aic_calls'[Len(aic_calls')].candidate)
         /\ aic_calls'[Len(aic_calls')].result = "Ok"
         /\ native_candidates' = native_candidates]_vars

\* C11 witness: the same triple was passed in twice before any remote
\* description and sits in the buffer twice.
C11_Witness ==
    /\ ~has_remote_description
    /\ Len(ice_candidates_buffer) = 2
    /\ ice_candidates_buffer[1] = ice_candidates_buffer[2]
    /\ \A j \in 1..2 : aic_calls[j].result = "Ok"

----------------------------------------------------------------------------
(* The reference rule of the statistics filter *)

\* The ids occurring in a snapshot.
IdsOf(stats) == {stats[k].id : k \in 1..Len(stats)}

\* The hash recorded for the id of entry k when the filter reaches it: that
\* of the latest earlier entry of the snapshot with this id, else the one
\* the cache held before the call, else none.
PriorHash(stats, cache, k) ==
    LET earlier == {j \in 1..(k - 1) : stats[j].id = stats[k].id}
    IN IF earlier # {}
         THEN Some(StatHash(stats[CHOOSE j \in earlier :
                                     \A j2 \in earlier : j2 <= j].stats))
         ELSE IF stats[k].id \in DOMAIN cache
                THEN Some(cache[stats[k].id])
                ELSE None

\* The entries the rule keeps, in snapshot order: those with no prior hash
\* or a prior hash different from their own.
RuleKept(stats, cache) ==
    LET K == {k \in 1..Len(stats) :
                 PriorHash(stats, cache, k) # Some(StatHash(stats[k].stats))}
        Pos(m) == CHOOSE k \in K : Cardinality({j \in K : j <= k}) = m
    IN [m \in 1..Cardinality(K) |-> stats[Pos(m)]]

\* The cache the rule leaves: every id of the snapshot holds the hash of its
\* latest entry, every other id what it held.
RuleCache(stats, cache) ==
    [x \in DOMAIN cache \cup IdsOf(stats) |->
        IF x \in IdsOf(stats)
          THEN LET at == {k \in 1..Len(stats) : stats[k].id = x}
               IN StatHash(stats[CHOOSE k \in at : \A k2 \in at : k2 <= k].stats)
          ELSE cache[x]]

\* Entries of the snapshot that share an id share their content.
SameIdSameContent(stats) ==
    \A j, k \in 1..Len(stats) :
        stats[j].id = stats[k].id => stats[j].stats = stats[k].stats

\* C12: every send_peer_stats() invocation keeps exactly the entries the
\* reference rule keeps, in snapshot order, and leaves the cache the rule
\* leaves.
C12_FilterFollowsReferenceRule ==
    [][stats_calls' = stats_calls + 1 =>
         /\ last_stats'.filtered = RuleKept(last_stats'.stats, sent_stats_cache)
         /\ sent_stats_cache' = RuleCache(last_stats'.stats, sent_stats_cache)]_vars

\* C12 witness: after a snapshot of two metrics, a snapshot with one of them
\* changed and the other unchanged was filtered down to the changed entry.
C12_Witness ==
    /\ stats_calls = 2
    /\ Len(peer_events) = 2
    /\ peer_events[1].event.payload =
          <<[id |-> "stat-a", stats |-> "x"], [id |-> "stat-b", stats |-> "x"]>>
    /\ last_stats.stats =
          <<[id |-> "stat-a", stats |-> "y"], [id |-> "stat-b", stats |-> "x"]>>
    /\ last_stats.filtered = <<[id |-> "stat-a", stats |-> "y"]>>

\* C13 as claimed: a send_peer_stats() invocation whose snapshot is identical
\* to the previous invocation's filters everything out and sends no event,
\* whatever the snapshot.
C13_RepeatedSnapshotFilteredOut ==
    [][(stats_calls' = stats_calls + 1 /\ last_stats'.repeated) =>
         /\ last_stats'.filtered = <<>>
         /\ peer_events' = peer_events]_vars

\* C13 as amended: the same, for snapshots whose entries with equal ids have
\* equal content (in particular snapshots with distinct ids).
C13_RepeatedConsistentSnapshotFilteredOut ==
    [][(/\ stats_calls' = stats_calls + 1
        /\ last_stats'.repeated
        /\ SameIdSameContent(last_stats'.stats)) =>
         /\ last_stats'.filtered = <<>>
         /\ peer_events' = peer_events]_vars

\* C13 witness: a snapshot of two metrics was sent twice in a row; the first
\* invocation sent it, the second filtered everything out.
C13_Witness ==
    /\ stats_calls = 2
    /\ last_stats.repeated
    /\ Len(last_stats.stats) = 2
    /\ SameIdSameContent(last_stats.stats)
    /\ last_stats.filtered = <<>>
    /\ Len(peer_events) = 1
    /\ peer_events[1].event.payload = last_stats.stats

\* C14: a send_peer_stats() invocation sends exactly one event, the
\* StatsUpdate with the session's peer id and the filtered snapshot, when the
\* filtered snapshot is non-empty, and sends nothing when it is empty.
C14_OneStatsUpdateIffNonEmpty ==
    [][stats_calls' = stats_calls + 1 =>
         IF last_stats'.filtered # <<>>
           THEN peer_events' = Append(peer_events,
                   [event |-> [type |-> "StatsUpdate", peer_id |-> id,
                               payload |-> last_stats'.filtered],
                    accepted |-> receiver_open])
           ELSE peer_events' = peer_events]_vars

\* C14 witness: of two invocations with non-empty snapshots one sent a
\* StatsUpdate and the latest one, left with nothing, sent none.
C14_Witness ==
    /\ stats_calls = 2
    /\ last_stats.stats # <<>>
    /\ last_stats.filtered = <<>>
    /\ Len(peer_events) = 1
    /\ peer_events[1].event.type = "StatsUpdate"

\* C15: no step removes a metric id from the cache, and the cache changes
\* only in a step that is a send_peer_stats() invocation (made directly or
\* by scrape_and_send_peer_stats()).
C15_CacheNeverShrinks ==
    [][/\ DOMAIN sent_stats_cache \subseteq DOMAIN sent_stats_cache'
       /\ sent_stats_cache' # sent_stats_cache => stats_calls' = stats_calls + 1]_vars

\* C15 witness: the cache holds two metrics although the latest snapshot
\* named only one of them.
C15_Witness ==
    /\ stats_calls = 2
    /\ Cardinality(DOMAIN sent_stats_cache) = 2
    /\ Cardinality(IdsOf(last_stats.stats)) = 1

----------------------------------------------------------------------------
(* update_local_stream() steps *)

\* The events a step sends: what it appends to peer_events.
Sent ==
    [k \in 1..(Len(peer_events') - Len(peer_events)) |->
        peer_events'[Len(peer_events) + k].event]

\* The step is the start of a new update_local_stream() call.
UlsStarts == Len(uls_calls') = Len(uls_calls) + 1

\* The step is the one in which call i returns.
UlsReturns(i) ==
    /\ i \in 1..Len(uls_calls')
    /\ uls_calls'[i].pc = "returned"
    /\ i \in 1..Len(uls_calls) => uls_calls[i].pc # "returned"

\* The local tracks of the pairs with is_new set, in order.
NewTracksOf(media_tracks) ==
    LET IsNew(e) == e.is_new
        new == SelectSeq(media_tracks, IsNew)
    IN [k \in 1..Len(new) |-> new[k].local_track]

\* C16: an update_local_stream() call for which the registry reports no
\* tracks needed returns Ok with an empty map in its first step, and that
\* step calls neither get_tracks() nor insert_local_tracks() and sends no
\* event.
C16_NothingNeededIsNoOp ==
    [][(UlsStarts /\ uls_calls'[Len(uls_calls')].request = None) =>
         /\ uls_calls'[Len(uls_calls')].pc = "returned"
         /\ uls_calls'[Len(uls_calls')].result = Some(Ok(EmptyUpdates))
         /\ get_tracks_calls' = get_tracks_calls
         /\ insert_local_tracks_calls' = insert_local_tracks_calls
         /\ peer_events' = peer_events]_vars

\* C16 witness: two calls with nothing needed have returned the empty map;
\* nothing was acquired, inserted or sent.
C16_Witness ==
    /\ Len(uls_calls) = 2
    /\ \A i \in 1..2 : /\ uls_calls[i].request = None
                       /\ uls_calls[i].result = Some(Ok(EmptyUpdates))
    /\ get_tracks_calls = 0
    /\ insert_local_tracks_calls = 0
    /\ peer_events = <<>>

\* C17: the step in which an update_local_stream() call returns an error
\* sends exactly one event, the FailedLocalMedia carrying that error; the
\* step in which a call returns Ok sends no FailedLocalMedia; no other step
\* sends one.
C17_FailureReportedOnce ==
    [][/\ \A i \in 1..MaxUlsCalls :
            UlsReturns(i) =>
               IF uls_calls'[i].result[1].ok
                 THEN \A k \in 1..Len(Sent) : Sent[k].type # "FailedLocalMedia"
                 ELSE Sent = <<FailedLocalMedia(uls_calls'[i].result[1].error)>>
       /\ (\A i \in 1..MaxUlsCalls : ~UlsReturns(i)) => Sent = <<>>]_vars

\* C17 witness: one call failed before acquisition and one in
\* insert_local_tracks(); each was followed by its FailedLocalMedia and
\* nothing else was sent.
C17_Witness ==
    /\ Len(uls_calls) = 2
    /\ uls_calls[1].result = Some(Err("InsertLocalTracksError"))
    /\ uls_calls[2].result = Some(Err("InvalidLocalTracks"))
    /\ get_tracks_calls = 1
    /\ [k \in 1..Len(peer_events) |-> peer_events[k].event] =
          <<FailedLocalMedia("InvalidLocalTracks"),
            FailedLocalMedia("InsertLocalTracksError")>>

\* C18: an update_local_stream() call whose requirement is not at most one
\* audio and at most two video tracks (2 audio + 1 video, say) returns
\* InvalidLocalTracks in its first step, without calling get_tracks().
C18_CardinalityRejectedBeforeAcquisition ==
    [][(/\ UlsStarts
        /\ uls_calls'[Len(uls_calls')].request # None
        /\ \/ uls_calls'[Len(uls_calls')].request[1].audio > 1
           \/ uls_calls'[Len(uls_calls')].request[1].video > 2) =>
         /\ uls_calls'[Len(uls_calls')].pc = "returned"
         /\ uls_calls'[Len(uls_calls')].result = Some(Err("InvalidLocalTracks"))
         /\ get_tracks_calls' = get_tracks_calls]_vars

\* C18 witness: a call needing 2 audio + 1 video tracks and a call needing 3
\* video tracks have both failed with InvalidLocalTracks and get_tracks() was
\* never called.
C18_Witness ==
    /\ Len(uls_calls) = 2
    /\ uls_calls[1].request = Some([audio |-> 2, video |-> 1])
    /\ uls_calls[2].request = Some([audio |-> 0, video |-> 3])
    /\ \A i \in 1..2 : uls_calls[i].result = Some(Err("InvalidLocalTracks"))
    /\ get_tracks_calls = 0

\* C19: the step in which an update_local_stream() call returns Ok after
\* acquiring tracks sends exactly the NewLocalTrack events of the tracks
\* acquired with is_new set, in the order get_tracks() returned them.
C19_NewLocalTrackPerFreshTrack ==
    [][\A i \in 1..Len(uls_calls) :
          (UlsReturns(i) /\ uls_calls'[i].result[1].ok) =>
             Sent = [k \in 1..Len(NewTracksOf(uls_calls[i].media_tracks)) |->
                        NewLocalTrack(NewTracksOf(uls_calls[i].media_tracks)[k])]]_vars

\* C19 witness: one successful call got a reused track followed by a new
\* one, another got two new tracks, video first; the channel holds the three
\* NewLocalTrack events of the new tracks in the collaborator's order.
C19_Witness ==
    /\ Len(uls_calls) = 2
    /\ \A i \in 1..2 : uls_calls[i].result = Some(Ok(StateUpdates))
    /\ [k \in 1..Len(peer_events) |-> peer_events[k].event] =
          <<NewLocalTrack("audio"), NewLocalTrack("video"), NewLocalTrack("audio")>>

\* C20: once the session has been dropped, a firing of any of the five
\* native callbacks sends no event and changes nothing else: no task is
\* spawned, no registration and no state of the session changes.
C20_FiringAfterDropIsNoOp ==
    [][(~session_alive /\ Len(fired') = Len(fired) + 1) =>
         UNCHANGED <<eventVars, session_alive, callbacks, remote_track_tasks,
                     iceVars, statsVars, streamVars, bridgeVars, newVars>>]_vars

\* C20 witness: after the drop the native connection fired a callback that
\* drop() leaves registered and one it unregisters; nothing was sent and no
\* task was spawned.
C20_Witness ==
    /\ ~session_alive
    /\ fired = <<[callback |-> "on_connection_state_change", arg |-> "Connected",
                  after_drop |-> TRUE],
                 [callback |-> "on_track", arg |-> "remote-track",
                  after_drop |-> TRUE]>>
    /\ "on_connection_state_change" \in callbacks
    /\ peer_events = <<>>
    /\ remote_track_tasks = <<>>

\* C21: once the session has been dropped, none of the five native callbacks
\* registered at construction is registered any more.
C21_AllCallbacksUnregisteredOnDrop ==
    ~session_alive => callbacks = {}

----------------------------------------------------------------------------
(* Callback firings and their events *)

\* The event a firing is converted to.
EventOf(firing) ==
    CASE firing.callback = "on_ice_candidate" ->
            [type |-> "IceCandidateDiscovered", peer_id |-> id,
             candidate |-> firing.arg.candidate,
             sdp_m_line_index |-> firing.arg.sdp_m_line_index,
             sdp_mid |-> firing.arg.sdp_mid]
      [] firing.callback = "on_ice_candidate_error" ->
            [type |-> "IceCandidateError", peer_id |-> id,
             address |-> firing.arg.address, port |-> firing.arg.port,
             url |-> firing.arg.url, error_code |-> firing.arg.error_code,
             error_text |-> firing.arg.error_text]
      [] firing.callback = "on_ice_connection_state_change" ->
            [type |-> "IceConnectionStateChanged", peer_id |-> id,
             ice_connection_state |-> firing.arg]
      [] firing.callback = "on_connection_state_change" ->
            [type |-> "PeerConnectionStateChanged", peer_id |-> id,
             peer_connection_state |-> firing.arg]
      [] firing.callback = "on_track" ->
            [type |-> "NewRemoteTrack", track |-> firing.arg]

\* The events of the firings selected by Test, in firing order.
EventsOfFirings(Test(_)) ==
    LET sel == SelectSeq(fired, Test)
    IN [k \in 1..Len(sel) |-> EventOf(sel[k])]

\* The events sent on the channel that satisfy Test, in sending order.
EventsSent(Test(_)) ==
    LET sel == SelectSeq(peer_events, Test)
    IN [k \in 1..Len(sel) |-> sel[k].event]

\* C22 as claimed: with the session alive and the channel open, the channel
\* holds, at every moment, exactly the events of the firings so far, in firing
\* order, those of on_track included.
C22_EveryFiringSentWithinInvocation ==
    (session_alive /\ receiver_open) =>
        LET Every(x) == TRUE
        IN EventsSent(Every) = EventsOfFirings(Every)

\* C22 as amended: at every moment the events sent for the four callbacks
\* other than on_track are exactly the events of their firings while the
\* session was alive, in firing order; the NewRemoteTrack events sent and the
\* add_remote_track() tasks still running are never more than the on_track
\* firings.
C22_SenderCallbacksSentWithinInvocation ==
    LET Alive(firing) == ~firing.after_drop /\ firing.callback # "on_track"
        NotTrack(e) == e.event.type # "NewRemoteTrack"
        IsTrack(e) == e.event.type = "NewRemoteTrack"
        OnTrackFiring(firing) == firing.callback = "on_track"
    IN /\ EventsSent(NotTrack) = EventsOfFirings(Alive)
       /\ Len(EventsSent(IsTrack)) + Len(remote_track_tasks)
             <= Len(EventsOfFirings(OnTrackFiring))

\* C22 witness: a connection state change and an ICE candidate fired in that
\* order while the session was alive and the channel open, and the channel
\* delivered their events in that order.
C22_Witness ==
    /\ session_alive
    /\ receiver_open
    /\ Len(fired) = 2
    /\ fired[1].callback = "on_connection_state_change"
    /\ fired[2].callback = "on_ice_candidate"
    /\ Delivered = <<EventOf(fired[1]), EventOf(fired[2])>>

\* C23: the events sent are exactly one MediaUpdateCommand per TrackEvent the
\* task has received, in the order received: an UpdateTracks with the
\* session's peer id and one patch with the intention's track id, in which a
\* mute intention sets only `muted` and an enable/disable intention only
\* `enabled`.
C23_OneCommandPerIntention ==
    /\ Len(peer_events) = Len(handled)
    /\ \A k \in 1..Len(handled) :
          LET command == peer_events[k].event.command
              patch == command.tracks_patches[1]
          IN /\ peer_events[k].event.type = "MediaUpdateCommand"
             /\ command.type = "UpdateTracks"
             /\ command.peer_id = id
             /\ Len(command.tracks_patches) = 1
             /\ patch.id = handled[k].id
             /\ handled[k].type = "MuteUpdateIntention" =>
                   patch.muted = <<handled[k].muted>> /\ patch.enabled = <<>>
             /\ handled[k].type = "MediaExchangeIntention" =>
                   patch.enabled = <<handled[k].enabled>> /\ patch.muted = <<>>

\* C23 witness: a mute intention of one track and then a disable intention
\* of another were received, and two commands were delivered.
C23_Witness ==
    /\ Len(handled) = 2
    /\ handled[1] = [type |-> "MuteUpdateIntention", id |-> "TrackId(2)", muted |-> TRUE]
    /\ handled[2] = [type |-> "MediaExchangeIntention", id |-> "TrackId(1)",
                     enabled |-> FALSE]
    /\ Len(Delivered) = 2

\* C24: the forwarding task has terminated only if every sender of the track
\* events channel is gone and the queue is empty, and once every sender is
\* gone the task eventually terminates.
C24_BridgeTerminatesWithItsChannel ==
    /\ [](bridge_task = "terminated" =>
             track_event_senders = {} /\ track_events = <<>>)
    /\ (track_event_senders = {}) ~> (bridge_task = "terminated")

\* C24 witness: the task has terminated after the session and the tracks
\* were dropped, having received the two intentions sent.
C24_Witness ==
    /\ bridge_task = "terminated"
    /\ ~session_alive
    /\ track_event_senders = {}
    /\ Len(handled) = 2

\* C25: with the receiver closed nothing more is delivered, and every
\* operation still makes the sends and has the result it has with the
\* receiver open: add_ice_candidate() and set_remote_description() send
\* nothing; send_peer_stats() filters and records by the reference rule and
\* sends its StatsUpdate; a returning update_local_stream() returns Ok with
\* every NewLocalTrack sent, or the error with its FailedLocalMedia sent; a
\* callback of the live session sends its event and changes nothing else.
C25_ClosedReceiverChangesNoResult ==
    [][~receiver_open =>
         /\ Delivered' = Delivered
         /\ \A k \in 1..(Len(peer_events') - Len(peer_events)) :
               ~peer_events'[Len(peer_events) + k].accepted
         /\ (aic_calls' # aic_calls \/ srd_calls' # srd_calls) => Sent = <<>>
         /\ stats_calls' = stats_calls + 1 =>
               /\ last_stats'.filtered = RuleKept(last_stats'.stats, sent_stats_cache)
               /\ sent_stats_cache' = RuleCache(last_stats'.stats, sent_stats_cache)
               /\ Sent = IF last_stats'.filtered = <<>> THEN <<>>
                         ELSE <<[type |-> "StatsUpdate", peer_id |-> id,
                                 payload |-> last_stats'.filtered]>>
         /\ \A i \in 1..Len(uls_calls) :
               (UlsReturns(i) /\ uls_calls[i].pc = "insert_local_tracks") =>
                  \/ /\ uls_calls'[i].result = Some(Ok(StateUpdates))
                     /\ Sent = [k \in 1..Len(NewTracksOf(uls_calls[i].media_tracks)) |->
                                   NewLocalTrack(NewTracksOf(uls_calls[i].media_tracks)[k])]
                  \/ /\ uls_calls'[i].result = Some(Err("InsertLocalTracksError"))
                     /\ Sent = <<FailedLocalMedia("InsertLocalTracksError")>>
         /\ \A i \in 1..MaxUlsCalls :
               (UlsReturns(i) /\ ~uls_calls'[i].result[1].ok) =>
                  Sent = <<FailedLocalMedia(uls_calls'[i].result[1].error)>>
         /\ (Len(fired') = Len(fired) + 1 /\ session_alive) =>
               /\ Sent = IF fired'[Len(fired')].callback = "on_track"
                           THEN <<>> ELSE <<EventOf(fired'[Len(fired')])>>
               /\ remote_track_tasks' =
                     IF fired'[Len(fired')].callback = "on_track"
                       THEN Append(remote_track_tasks, fired'[Len(fired')].arg)
                       ELSE remote_track_tasks
               /\ UNCHANGED <<session_alive, callbacks>>]_vars

\* C25 witness: with the receiver closed, an update_local_stream() call that
\* acquired two new tracks returned Ok; both NewLocalTrack sends were made and
\* dropped, and nothing was delivered.
C25_Witness ==
    /\ ~receiver_open
    /\ Len(uls_calls) >= 1
    /\ uls_calls[1].result = Some(Ok(StateUpdates))
    /\ Len(peer_events) = 2
    /\ \A k \in 1..2 : /\ peer_events[k].event.type = "NewLocalTrack"
                       /\ ~peer_events[k].accepted
    /\ Delivered = <<>>

\* C26: the step in which a scrape_and_send_peer_stats() call learns that
\* get_stats() failed ends the call, sends nothing and leaves the cache as it
\* is; the step in which it gets a snapshot ends the call with the effect of
\* send_peer_stats() on that snapshot.
C26_FailedScrapeIsDropped ==
    [][get_stats_pending' = get_stats_pending - 1 =>
         IF get_stats_failures' = get_stats_failures + 1
           THEN UNCHANGED <<sent_stats_cache, stats_calls, last_stats, eventVars>>
           ELSE /\ stats_calls' = stats_calls + 1
                /\ last_stats'.filtered = RuleKept(last_stats'.stats, sent_stats_cache)
                /\ sent_stats_cache' = RuleCache(last_stats'.stats, sent_stats_cache)
                /\ Sent = IF last_stats'.filtered = <<>> THEN <<>>
                          ELSE <<[type |-> "StatsUpdate", peer_id |-> id,
                                  payload |-> last_stats'.filtered]>>]_vars

\* C26 witness: one snapshot was sent and one scrape failed; the cache holds
\* the snapshot's metrics and the channel its StatsUpdate only.
C26_Witness ==
    /\ get_stats_failures = 1
    /\ get_stats_pending = 0
    /\ stats_calls = 1
    /\ DOMAIN sent_stats_cache = IdsOf(last_stats.stats)
    /\ Len(last_stats.stats) = 2
    /\ Len(peer_events) = 1


\* C27: when the native connection cannot be created, new() has failed with
\* PeerCreationError after one creation attempt, with no callback registered,
\* no bridge task spawned, no track channel made and no event sent.
C27_FailedConstructionLeavesNothing ==
    /\ native_new_calls <= 1
    /\ construction = "PeerCreationError" =>
          /\ native_new_calls = 1
          /\ callbacks = {}
          /\ bridge_task = "not spawned"
          /\ track_event_senders = {}
          /\ ~session_alive
          /\ fired = <<>>
          /\ peer_events = <<>>

\* C27 witness: the construction has failed after its native attempt.
C27_Witness == construction = "PeerCreationError" /\ native_new_calls = 1


\* Call i of set_remote_description() moves from position `from` to `to`.
SrdMoves(i, from, to) ==
    /\ i \in 1..Len(srd_calls)
    /\ srd_calls[i].pc = from
    /\ srd_calls'[i].pc = to

\* The order of the steps of each set_remote_description() call: the step
\* that learns of the native success sets the flag and invokes
\* sync_receivers() once, submitting nothing; sync_receivers() is invoked in
\* no other step; buffered candidates are submitted only in the step in which
\* a call's sync_receivers() completes, and that step submits the buffer.
SrdStepsInOrder ==
    /\ \A i \in 1..Len(srd_calls) :
          /\ srd_calls[i].pc = "set_remote_description" =>
                srd_calls'[i].pc \in {"set_remote_description", "sync_receivers",
                                      "returned"}
          /\ SrdMoves(i, "set_remote_description", "returned") =>
                srd_calls'[i].result = "SetRemoteDescriptionFailed"
          /\ SrdMoves(i, "set_remote_description", "sync_receivers") =>
                /\ has_remote_description'
                /\ sync_receivers_calls' = sync_receivers_calls + 1
                /\ UNCHANGED <<native_candidates, ice_candidates_buffer>>
          /\ srd_calls[i].pc = "sync_receivers" =>
                /\ srd_calls'[i].pc \in {"sync_receivers", "try_join_all", "returned"}
                /\ has_remote_description
          /\ srd_calls[i].pc = "sync_receivers" /\ srd_calls'[i].pc # "sync_receivers" =>
                /\ native_candidates' = native_candidates \o
                      [k \in 1..Len(ice_candidates_buffer) |->
                          NativeCall(ice_candidates_buffer[k], "flush")]
                /\ ice_candidates_buffer' = <<>>
                /\ UNCHANGED sync_receivers_calls
          /\ srd_calls[i].pc = "try_join_all" =>
                srd_calls'[i].pc \in {"try_join_all", "returned"}
    /\ sync_receivers_calls' # sync_receivers_calls =>
          \E i \in 1..Len(srd_calls) :
              SrdMoves(i, "set_remote_description", "sync_receivers")
    /\ Flushed' # Flushed =>
          \E i \in 1..Len(srd_calls) :
              srd_calls[i].pc = "sync_receivers" /\ srd_calls'[i].pc # "sync_receivers"

UlsMoves(i, from, to) ==
    /\ i \in 1..Len(uls_calls)
    /\ uls_calls[i].pc = from
    /\ uls_calls'[i].pc = to

\* The step sends a NewLocalTrack event.
SendsNewLocalTrack == \E k \in 1..Len(Sent) : Sent[k].type = "NewLocalTrack"

\* C29: every update_local_stream() call goes through get_tracks(),
\* parse_tracks(), insert_local_tracks() and the NewLocalTrack events in that
\* order, one step after the other's completion, and a failure ends it: after
\* a failed get_tracks() nothing is parsed or inserted, after a failed
\* parse_tracks() nothing is inserted, and a call that returns an error has
\* sent no NewLocalTrack event.
C29_StepsInOrderAndFailureAborts ==
    [][/\ \A i \in 1..Len(uls_calls) :
             /\ uls_calls[i].pc = "get_tracks" =>
                   uls_calls'[i].pc \in {"get_tracks", "parse_tracks", "returned"}
             /\ UlsMoves(i, "get_tracks", "parse_tracks") =>
                   /\ UNCHANGED <<insert_local_tracks_calls, peer_events>>
             /\ UlsMoves(i, "get_tracks", "returned") =>
                   /\ uls_calls'[i].result = Some(Err("CouldNotGetLocalMedia"))
                   /\ UNCHANGED insert_local_tracks_calls
                   /\ ~SendsNewLocalTrack
             /\ uls_calls[i].pc = "parse_tracks" =>
                   uls_calls'[i].pc \in {"parse_tracks", "insert_local_tracks",
                                         "returned"}
             /\ UlsMoves(i, "parse_tracks", "insert_local_tracks") =>
                   /\ insert_local_tracks_calls' = insert_local_tracks_calls + 1
                   /\ UNCHANGED peer_events
             /\ UlsMoves(i, "parse_tracks", "returned") =>
                   /\ uls_calls'[i].result = Some(Err("InvalidLocalTracks"))
                   /\ UNCHANGED insert_local_tracks_calls
                   /\ ~SendsNewLocalTrack
             /\ uls_calls[i].pc = "insert_local_tracks" =>
                   uls_calls'[i].pc \in {"insert_local_tracks", "returned"}
             /\ UlsMoves(i, "insert_local_tracks", "returned") =>
                   /\ UNCHANGED insert_local_tracks_calls
                   /\ uls_calls'[i].result \in {Some(Ok(StateUpdates)),
                                               Some(Err("InsertLocalTracksError"))}
             /\ uls_calls[i].pc = "returned" => uls_calls'[i] = uls_calls[i]
       /\ \A i \in 1..Len(uls_calls') :
             (UlsReturns(i) /\ ~uls_calls'[i].result[1].ok) => ~SendsNewLocalTrack
       /\ UlsStarts =>
             /\ uls_calls'[Len(uls_calls')].pc \in {"get_tracks", "returned"}
             /\ UNCHANGED insert_local_tracks_calls
       /\ insert_local_tracks_calls' # insert_local_tracks_calls =>
             \E i \in 1..Len(uls_calls) :
                 UlsMoves(i, "parse_tracks", "insert_local_tracks")
       /\ SendsNewLocalTrack =>
             \E i \in 1..Len(uls_calls) :
                 /\ UlsMoves(i, "insert_local_tracks", "returned")
                 /\ uls_calls'[i].result = Some(Ok(StateUpdates))]_vars

\* C29 witness: one call failed in insert_local_tracks() after acquiring new
\* tracks and another failed in get_tracks(); insert_local_tracks() was
\* invoked once and the channel holds the two FailedLocalMedia events only.
C29_Witness ==
    /\ Len(uls_calls) = 2
    /\ uls_calls[1].result = Some(Err("InsertLocalTracksError"))
    /\ uls_calls[2].result = Some(Err("CouldNotGetLocalMedia"))
    /\ get_tracks_calls = 2
    /\ insert_local_tracks_calls = 1
    /\ Len(peer_events) = 2
    /\ \A k \in 1..2 : peer_events[k].event.type = "FailedLocalMedia"


\* C30: update_local_stream() calls do not exclude each other: whatever the
\* positions of the calls in flight, a further call can be made with any
\* criteria, and every call in flight can take its next step with either
\* outcome.
C30_CallsDoNotExcludeEachOther ==
    /\ (session_alive /\ Len(uls_calls) < MaxUlsCalls) =>
          \A request \in TracksRequests, merge_ok \in BOOLEAN :
              ENABLED UpdateLocalStream(request, merge_ok)
    /\ \A i \in 1..Len(uls_calls) :
          /\ uls_calls[i].pc = "get_tracks" =>
                /\ ENABLED GetTracksErr(i)
                /\ \A media_tracks \in MediaTracks : ENABLED GetTracksOk(i, media_tracks)
          /\ uls_calls[i].pc = "parse_tracks" =>
                ENABLED ParseTracksOk(i) /\ ENABLED ParseTracksErr(i)
          /\ uls_calls[i].pc = "insert_local_tracks" =>
                ENABLED InsertLocalTracksOk(i) /\ ENABLED InsertLocalTracksErr(i)

\* C30 witness: the second call was made, with the criteria of the first, and
\* called get_tracks() while the first was suspended after its get_tracks()
\* and before its insert_local_tracks(); both calls then inserted their
\* tracks and returned Ok.
C30_Witness ==
    /\ Len(uls_calls) = 2
    /\ uls_calls[2].in_flight = {"parse_tracks"}
    /\ uls_calls[2].request = uls_calls[1].request
    /\ \A i \in 1..2 : uls_calls[i].result = Some(Ok(StateUpdates))
    /\ get_tracks_calls = 2
    /\ insert_local_tracks_calls = 2


\* The previous send_peer_stats() invocation sent a StatsUpdate that the
\* channel dropped.
LastStatsUpdateDropped ==
    /\ last_stats.filtered # <<>>
    /\ peer_events # <<>>
    /\ ~peer_events[Len(peer_events)].accepted

\* A send_peer_stats() invocation made with the receiver closed records the
\* hashes as the reference rule does, and no step taken with the receiver
\* closed delivers anything.
DroppedSendStillRecorded ==
    /\ (stats_calls' = stats_calls + 1 /\ ~receiver_open) =>
          /\ last_stats'.filtered = RuleKept(last_stats'.stats, sent_stats_cache)
          /\ sent_stats_cache' = RuleCache(last_stats'.stats, sent_stats_cache)
          /\ \A k \in 1..Len(last_stats'.filtered) :
                sent_stats_cache'[last_stats'.filtered[k].id] \in
                   {StatHash(last_stats'.stats[j].stats) :
                       j \in 1..Len(last_stats'.stats)}
    /\ ~receiver_open => Delivered' = Delivered

\* C31 as stated: the cache is updated although the StatsUpdate is dropped,
\* so that the invocation that follows a dropped StatsUpdate with the
\* identical snapshot filters everything out, whatever the snapshot.
C31_IdenticalSnapshotAfterDroppedSendFilteredOut ==
    [][/\ DroppedSendStillRecorded
       /\ (/\ stats_calls' = stats_calls + 1
           /\ last_stats'.repeated
           /\ LastStatsUpdateDropped) =>
             /\ last_stats'.filtered = <<>>
             /\ peer_events' = peer_events]_vars

\* C31 amended: the same, for snapshots whose entries with equal ids have
\* equal content.
C31_ConsistentSnapshotAfterDroppedSendFilteredOut ==
    [][/\ DroppedSendStillRecorded
       /\ (/\ stats_calls' = stats_calls + 1
           /\ last_stats'.repeated
           /\ LastStatsUpdateDropped
           /\ SameIdSameContent(last_stats'.stats)) =>
             /\ last_stats'.filtered = <<>>
             /\ peer_events' = peer_events]_vars

\* C31 witness: with the receiver closed a snapshot of two metrics was passed
\* twice in a row; the StatsUpdate of the first invocation was dropped, its
\* hashes are in the cache, the second invocation kept nothing and nothing
\* was delivered.
C31_Witness ==
    /\ ~receiver_open
    /\ stats_calls = 2
    /\ last_stats.repeated
    /\ Cardinality(IdsOf(last_stats.stats)) = 2
    /\ last_stats.filtered = <<>>
    /\ Len(peer_events) = 1
    /\ ~peer_events[1].accepted
    /\ peer_events[1].event.payload = last_stats.stats
    /\ DOMAIN sent_stats_cache = IdsOf(last_stats.stats)
    /\ Delivered = <<>>


\* C32: the forwarding task does not look at the session: as long as a track
\* holds a sender or an intention is queued the task is running, an
\* intention sent after the session was dropped is turned into the
\* MediaUpdateCommand with the dropped session's peer id like any other and
\* is delivered if the receiver is open, and every intention sent is
\* eventually received by the task.
C32_IntentionsForwardedAfterDrop ==
    /\ []((track_event_senders # {} \/ track_events # <<>>) => bridge_task = "running")
    /\ [][Len(handled') = Len(handled) + 1 =>
            /\ handled' = Append(handled, Head(track_events))
            /\ peer_events' = Append(peer_events,
                  [event |-> MediaUpdateCommand(id,
                                <<TrackPatchCommand(Head(track_events))>>),
                   accepted |-> receiver_open])
            /\ (sent_after_drop[Len(handled')] /\ receiver_open) =>
                  Delivered' = Append(Delivered,
                      MediaUpdateCommand(id,
                          <<TrackPatchCommand(Head(track_events))>>))]_vars
    /\ \A n \in 1..MaxIntentions :
          (Len(sent_after_drop) >= n) ~> (Len(handled) >= n)

\* C32 witness: the session was dropped while a track held a sender, the
\* track then sent two intentions, and with the receiver open both were
\* delivered as commands of the dropped session's peer.
C32_Witness ==
    /\ ~session_alive
    /\ receiver_open
    /\ sent_after_drop = <<TRUE, TRUE>>
    /\ Len(handled) = 2
    /\ Len(Delivered) = 2
    /\ \A k \in 1..2 : Delivered[k].command.peer_id = id

====
